---------------------------- MODULE Spec2Model ----------------------------
(***************************************************************************)
(* A model of the 6502 emulator core (emulator/src/processor/cpu.rs and    *)
(* registers.rs): the registers, the 64 KiB memory bus, the stack, the     *)
(* addressing-mode resolution, the instruction handlers, the decode table  *)
(* of execute_instruction, and the execute() / step() drivers.             *)
(*                                                                         *)
(* A CPU value is a record [a, x, y, p, sp, pc, mem, ok].  mem is the      *)
(* memory array kept sparsely: a function from the addresses holding a     *)
(* non-zero byte to that byte; every other address reads 0.  ok is FALSE   *)
(* once an arithmetic overflow has aborted the call (Rust's overflow       *)
(* check, present or absent depending on the build: overflow_checks).      *)
(***************************************************************************)
EXTENDS Integers, Sequences, FiniteSets, TLC

VARIABLES
    a, x, y, p, sp, pc,  \* Registers (registers.rs)
    memory,              \* Cpu.memory, sparse
    status,              \* where the host is: "idle", "running" (inside execute's
                         \* loop), "returned" (execute returned), "panicked"
    overflow_checks,     \* the build: TRUE when +,- on integers panic on overflow
    last,                \* history: the last operation, its input, its result and
                         \* the Cpu it started from
    prior,               \* history: the operation before the last one, since the
                         \* last reset or load
    call,                \* history: the most recent JSR that completed, since the
                         \* last reset
    calls,               \* the number of direct calls (step, stack_push,
                         \* stack_pop) the host has made
    iter,                \* the parity of the iterations execute's loop has made
    dbg,                 \* a second Cpu, driven by step()
    dbg_ret,             \* the opcode the last step() on dbg returned, or -1
    assembler,           \* the host's Assembler
    tool                 \* history: what the host last called on the assembler
                         \* or the disassembler, and what the calls returned

cpu_vars == <<a, x, y, p, sp, pc, memory, status, last, prior, call, calls, iter,
              dbg, dbg_ret>>

vars == <<cpu_vars, overflow_checks, assembler, tool>>

-----------------------------------------------------------------------------
(* Bit arithmetic on bytes.                                                *)

Byte == 0..255

RECURSIVE BitAnd(_, _)
BitAnd(u, v) ==
    IF u = 0 \/ v = 0 THEN 0
    ELSE (u % 2) * (v % 2) + 2 * BitAnd(u \div 2, v \div 2)

RECURSIVE BitOr(_, _)
BitOr(u, v) ==
    IF u = 0 THEN v
    ELSE IF v = 0 THEN u
    ELSE (IF u % 2 = 1 \/ v % 2 = 1 THEN 1 ELSE 0) + 2 * BitOr(u \div 2, v \div 2)

RECURSIVE BitXor(_, _)
BitXor(u, v) ==
    IF u = 0 THEN v
    ELSE IF v = 0 THEN u
    ELSE ((u + v) % 2) + 2 * BitXor(u \div 2, v \div 2)

\* !v on a u8
BitNot(v) == 255 - v

\* v as i8 as u16: the sign-extension of a byte to 16 bits
SignExtend(v) == IF v >= 128 THEN v + 65280 ELSE v

-----------------------------------------------------------------------------
(* The memory bus.                                                         *)

ORG == 32768

STACK_BASE == 256

EmptyMemory == [k \in {} |-> 0]

read(mem, addr) == IF addr \in DOMAIN mem THEN mem[addr] ELSE 0

mem_write(mem, addr, data) ==
    IF data = 0
    THEN [k \in (DOMAIN mem) \ {addr} |-> mem[k]]
    ELSE [k \in (DOMAIN mem) \cup {addr} |-> IF k = addr THEN data ELSE mem[k]]

\* the little-endian pair (mem[addr], mem[addr + 1]), the high byte of 0xFFFF at 0x0000
read_addr(mem, addr) == read(mem, addr) + 256 * read(mem, (addr + 1) % 65536)

RECURSIVE rom_from(_, _, _)
rom_from(mem, program, i) ==
    IF i > Len(program) THEN mem
    ELSE rom_from(mem_write(mem, (ORG + i - 1) % 65536, program[i]), program, i + 1)

\* copy the program to memory starting at ORG
rom(mem, program) == rom_from(mem, program, 1)

-----------------------------------------------------------------------------
(* Integer arithmetic of the build: `+` and `-` on u8 / u16 abort the call *)
(* when overflow checks are compiled in, and wrap otherwise.               *)

\* s with the changes t, unless the call has already aborted
Upd(s, t) == IF s.ok THEN t ELSE s

Abort(s) == [s EXCEPT !.ok = FALSE]

\* the u16 sum u + v: [s |-> the Cpu after, v |-> the sum]
Add16(s, u, v) ==
    IF ~s.ok THEN [s |-> s, v |-> 0]
    ELSE IF u + v > 65535
         THEN (IF overflow_checks
               THEN [s |-> Abort(s), v |-> 0]
               ELSE [s |-> s, v |-> (u + v) % 65536])
         ELSE [s |-> s, v |-> u + v]

\* the u8 difference u - v
Sub8(s, u, v) ==
    IF ~s.ok THEN [s |-> s, v |-> 0]
    ELSE IF u - v < 0
         THEN (IF overflow_checks
               THEN [s |-> Abort(s), v |-> 0]
               ELSE [s |-> s, v |-> (u - v) % 256])
         ELSE [s |-> s, v |-> u - v]

\* registers.pc = r.v, r the pair [s |-> a Cpu, v |-> an address]
SetPc(r) == Upd(r.s, [r.s EXCEPT !.pc = r.v])

\* self.registers.pc += n
pc_add(s, n) == SetPc(Add16(s, s.pc, n))

\* registers.<reg> = value
SetReg(s, reg, value) == Upd(s, [s EXCEPT ![reg] = value])

write(s, addr, data) == Upd(s, [s EXCEPT !.mem = mem_write(s.mem, addr, data)])

\* memory.write(r.v, data), r the pair [s |-> a Cpu, v |-> an address]
write_at(r, data) == write(r.s, r.v, data)

\* memory.read(r.v), with the Cpu it is read from
read_at(r) == [s |-> r.s, v |-> read(r.s.mem, r.v)]

-----------------------------------------------------------------------------
(* Registers: the flag accessors of registers.rs.                          *)

\* a setter that flips the bit when it is to clear it
set_flag_mutated(s, mask, value) ==
    Upd(s, [s EXCEPT !.p = IF value THEN BitOr(s.p, mask) ELSE BitXor(s.p, mask)])

\* p | mask when value, p & !mask otherwise
set_flag(s, mask, value) ==
    Upd(s, [s EXCEPT !.p = IF value THEN BitOr(s.p, mask)
                                     ELSE BitAnd(s.p, BitNot(mask))])

\* a setter of N whose mask has bit 5 as well
set_flag_negative_mutated(s, value) == set_flag(s, 160, value)

set_flag_negative(s, value) == set_flag(s, 128, value)
get_flag_negative(s) == BitAnd(s.p, 128) # 0

set_flag_overflow(s, value) == set_flag(s, 64, value)
get_flag_overflow(s) == BitAnd(s.p, 64) # 0

set_flag_break(s, value) == set_flag(s, 16, value)
get_flag_break(s) == BitAnd(s.p, 16) # 0

set_flag_decimal(s, value) == set_flag(s, 8, value)
get_flag_decimal(s) == BitAnd(s.p, 8) # 0

set_flag_interrupt_disable(s, value) == set_flag(s, 4, value)
get_flag_interrupt_disable(s) == BitAnd(s.p, 4) # 0

set_flag_zero(s, value) == set_flag(s, 2, value)
get_flag_zero(s) == BitAnd(s.p, 2) # 0

set_flag_carry(s, value) == set_flag(s, 1, value)
get_flag_carry(s) == BitAnd(s.p, 1) # 0

set_zero_negative_flags(s, value) ==
    set_flag_negative(set_flag_zero(s, value = 0), BitAnd(value, 128) # 0)

\* registers.<reg> = value; set_zero_negative_flags(value)
LoadReg(s, reg, value) == set_zero_negative_flags(SetReg(s, reg, value), value)

\* Registers::default and Registers::reset, on a Cpu whose memory is mem
\* a reset that leaves the stack pointer at the top of the stack page
registers_reset_mutated(mem) ==
    [a |-> 0, x |-> 0, y |-> 0, p |-> 0, sp |-> \hFF, pc |-> ORG, mem |-> mem,
     ok |-> TRUE]

registers_reset(mem) ==
    [a |-> 0, x |-> 0, y |-> 0, p |-> 0, sp |-> 0, pc |-> ORG, mem |-> mem, ok |-> TRUE]

-----------------------------------------------------------------------------
(* The stack.                                                              *)

\* write at STACK_BASE + sp, then sp = sp.wrapping_sub(1)
\* a push that stops the stack pointer at 0 instead of wrapping
stack_push_mutated(s, data) ==
    SetReg(write(s, STACK_BASE + s.sp, data), "sp", IF s.sp = 0 THEN 0 ELSE s.sp - 1)

\* memory[STACK_BASE + sp] = data; sp = sp.wrapping_sub(1)
stack_push(s, data) ==
    SetReg(write(s, STACK_BASE + s.sp, data), "sp", (s.sp - 1) % 256)

\* the byte at STACK_BASE + sp, with the Cpu it is read from
stack_top(t) == [s |-> t, v |-> read(t.mem, STACK_BASE + t.sp)]

\* a pop that reads before it moves the stack pointer
stack_pop_mutated(s) ==
    [s |-> SetReg(s, "sp", (s.sp + 1) % 256), v |-> read(s.mem, STACK_BASE + s.sp)]

\* sp = sp.wrapping_add(1), then read at STACK_BASE + sp
stack_pop(s) == stack_top(SetReg(s, "sp", (s.sp + 1) % 256))

\* msb first, then lsb
stack_push_addr(s, data) ==
    stack_push(stack_push(s, data \div 256), data % 256)

\* u16::from_le_bytes([lsb, msb]), msb the pop after the one that gave lsb
stack_pop_msb(lsb, m) == [s |-> m.s, v |-> lsb + 256 * m.v]

stack_pop_lsb(l) == stack_pop_msb(l.v, stack_pop(l.s))

\* lsb first, then msb
stack_pop_addr(s) == stack_pop_lsb(stack_pop(s))

-----------------------------------------------------------------------------
(* Addressing-mode resolution: [s |-> the Cpu after, v |-> the address].   *)

\* a resolution whose zero-page sums are not reduced
get_address_from_mode_mutated(s, mode) ==
    CASE mode = "Immediate" ->
            [s |-> pc_add(s, 1), v |-> s.pc]
      [] mode = "Absolute" ->
            [s |-> pc_add(s, 2), v |-> read_addr(s.mem, s.pc)]
      [] mode = "AbsoluteX" ->
            Add16(pc_add(s, 2), read_addr(s.mem, s.pc), s.x)
      [] mode = "AbsoluteY" ->
            Add16(pc_add(s, 2), read_addr(s.mem, s.pc), s.y)
      [] mode = "Indirect" ->
            [s |-> pc_add(s, 2), v |-> read_addr(s.mem, read_addr(s.mem, s.pc))]
      [] mode = "IndirectX" ->
            [s |-> pc_add(pc_add(s, 1), 2),
             v |-> read_addr(s.mem, read(s.mem, s.pc) + s.x)]
      [] mode = "IndirectY" ->
            Add16(pc_add(pc_add(s, 1), 2), read_addr(s.mem, read(s.mem, s.pc)), s.y)
      [] mode = "ZeroPage" ->
            [s |-> pc_add(s, 1), v |-> read(s.mem, s.pc)]
      [] mode = "ZeroPageX" ->
            [s |-> pc_add(s, 1), v |-> read(s.mem, s.pc) + s.x]
      [] mode = "ZeroPageY" ->
            [s |-> pc_add(s, 1), v |-> read(s.mem, s.pc) + s.y]

get_address_from_mode(s, mode) ==
    CASE mode = "Immediate" ->
            [s |-> pc_add(s, 1), v |-> s.pc]
      [] mode = "Absolute" ->
            [s |-> pc_add(s, 2), v |-> read_addr(s.mem, s.pc)]
      [] mode = "AbsoluteX" ->
            Add16(pc_add(s, 2), read_addr(s.mem, s.pc), s.x)
      [] mode = "AbsoluteY" ->
            Add16(pc_add(s, 2), read_addr(s.mem, s.pc), s.y)
      [] mode = "Indirect" ->
            [s |-> pc_add(s, 2), v |-> read_addr(s.mem, read_addr(s.mem, s.pc))]
      [] mode = "IndirectX" ->
            \* base = read(pc); pc += 1; ptr = base.wrapping_add(x);
            \* data = read_addr(ptr); pc += 2
            [s |-> pc_add(pc_add(s, 1), 2),
             v |-> read_addr(s.mem, (read(s.mem, s.pc) + s.x) % 256)]
      [] mode = "IndirectY" ->
            \* ptr = read(pc); pc += 1; data = read_addr(ptr); pc += 2; data + y
            Add16(pc_add(pc_add(s, 1), 2), read_addr(s.mem, read(s.mem, s.pc)), s.y)
      [] mode = "ZeroPage" ->
            [s |-> pc_add(s, 1), v |-> read(s.mem, s.pc)]
      [] mode = "ZeroPageX" ->
            [s |-> pc_add(s, 1), v |-> (read(s.mem, s.pc) + s.x) % 256]
      [] mode = "ZeroPageY" ->
            [s |-> pc_add(s, 1), v |-> (read(s.mem, s.pc) + s.y) % 256]

get_data_from_addressing_mode(s, mode) == read_at(get_address_from_mode(s, mode))

-----------------------------------------------------------------------------
(* The instruction handlers.  A handler that resolves an operand hands the *)
(* pair r = [s, v] it gets (the Cpu after the resolution and the address   *)
(* or the data) to the rest of its body, which is the operator named after *)
(* it with the suffix _with.                                               *)

\* the sum is taken in 16 bits, so it cannot overflow; V is computed before A is
\* assigned
\* an addition whose overflow test compares the operands with each other
add_to_accumulator_with_carry_mutated(s, data) ==
    LET wide == IF get_flag_carry(s) THEN s.a + data + 1 ELSE s.a + data
        sum  == wide % 256
        c    == set_flag_carry(s, wide > 255)
        v    == set_flag_overflow(c,
                    BitAnd(BitAnd(BitXor(s.a, data), BitXor(s.a, sum)), 128) # 0)
    IN  SetReg(set_zero_negative_flags(v, sum), "a", sum)

\* an addition that adjusts the sum to decimal digits when D is set
add_to_accumulator_with_carry_decimal(s, data) ==
    LET wide == IF get_flag_carry(s) THEN s.a + data + 1 ELSE s.a + data
        bcd  == IF get_flag_decimal(s) /\ (wide % 16) > 9 THEN wide + 6 ELSE wide
        sum  == bcd % 256
        c    == set_flag_carry(s, bcd > 255)
        v    == set_flag_overflow(c,
                    BitAnd(BitAnd(BitXor(s.a, sum), BitXor(data, sum)), 128) # 0)
    IN  SetReg(set_zero_negative_flags(v, sum), "a", sum)

add_to_accumulator_with_carry(s, data) ==
    LET wide == IF get_flag_carry(s) THEN s.a + data + 1 ELSE s.a + data
        sum  == wide % 256
        c    == set_flag_carry(s, wide > 255)
        v    == set_flag_overflow(c,
                    BitAnd(BitAnd(BitXor(s.a, sum), BitXor(data, sum)), 128) # 0)
    IN  SetReg(set_zero_negative_flags(v, sum), "a", sum)

\* a branch that adds the offset without extending its sign
branch_with_mutated(t, offset) ==
    Upd(t, [t EXCEPT !.pc = (t.pc + offset) % 65536])

\* pc = pc.wrapping_add(offset as i8 as u16), after pc += 1
branch_with(t, offset) ==
    Upd(t, [t EXCEPT !.pc = (t.pc + SignExtend(offset)) % 65536])

branch(s) == branch_with(pc_add(s, 1), read(s.mem, s.pc))

adc_with(r) == add_to_accumulator_with_carry(r.s, r.v)

adc(s, mode) == adc_with(get_data_from_addressing_mode(s, mode))

and_with(r) == LoadReg(r.s, "a", BitAnd(r.s.a, r.v))

and(s, mode) == and_with(get_data_from_addressing_mode(s, mode))

\* a shift or rotate stores its result: in A without a mode, and with one at the
\* address a second resolution of the mode gives
store_result(s, mode, data) ==
    IF mode = "None" THEN SetReg(s, "a", data)
    ELSE write_at(get_address_from_mode(s, mode), data)

\* the operand of a shift or rotate
load_operand(s, mode) ==
    IF mode = "None" THEN [s |-> s, v |-> s.a]
    ELSE get_data_from_addressing_mode(s, mode)

asl_with(r, mode) ==
    store_result(set_zero_negative_flags(set_flag_carry(r.s, BitAnd(r.v, 128) # 0),
                                         (r.v * 2) % 256),
                 mode, (r.v * 2) % 256)

asl(s, mode) == asl_with(load_operand(s, mode), mode)

bcc(s) == IF ~get_flag_carry(s) THEN branch(s) ELSE pc_add(s, 1)

bcs(s) == IF get_flag_carry(s) THEN branch(s) ELSE pc_add(s, 1)

beq(s) == IF get_flag_zero(s) THEN branch(s) ELSE pc_add(s, 1)

bit_with(r) ==
    set_flag_zero(set_flag_overflow(set_flag_negative(r.s, BitAnd(r.v, 128) # 0),
                                    BitAnd(r.v, 64) # 0),
                  BitAnd(r.s.a, r.v) = 0)

bit(s, mode) == bit_with(get_data_from_addressing_mode(s, mode))

bmi(s) == IF get_flag_negative(s) THEN branch(s) ELSE pc_add(s, 1)

bne(s) == IF ~get_flag_zero(s) THEN branch(s) ELSE pc_add(s, 1)

bpl(s) == IF ~get_flag_negative(s) THEN branch(s) ELSE pc_add(s, 1)

bvc(s) == IF ~get_flag_overflow(s) THEN branch(s) ELSE pc_add(s, 1)

bvs(s) == IF get_flag_overflow(s) THEN branch(s) ELSE pc_add(s, 1)

clc(s) == set_flag_carry(s, FALSE)

cld(s) == set_flag_decimal(s, FALSE)

cli(s) == set_flag_interrupt_disable(s, FALSE)

clv(s) == set_flag_overflow(s, FALSE)

\* CMP, CPX, CPY: reg.wrapping_sub(data) sets Z and N, reg >= data sets C
compare_with(r, reg) ==
    set_flag_carry(set_zero_negative_flags(r.s, (r.s[reg] - r.v) % 256), r.s[reg] >= r.v)

\* a CMP that compares X
cmp_mutated(s, mode) == compare_with(get_data_from_addressing_mode(s, mode), "x")

cmp(s, mode) == compare_with(get_data_from_addressing_mode(s, mode), "a")

cpx(s, mode) == compare_with(get_data_from_addressing_mode(s, mode), "x")

cpy(s, mode) == compare_with(get_data_from_addressing_mode(s, mode), "y")

\* INC, DEC: the byte at the address, plus d, written back
modify_with(r, d) ==
    set_zero_negative_flags(write(r.s, r.v, (read(r.s.mem, r.v) + d) % 256),
                            (read(r.s.mem, r.v) + d) % 256)

dec(s, mode) == modify_with(get_address_from_mode(s, mode), -1)

dex(s) == LoadReg(s, "x", (s.x - 1) % 256)

dey(s) == LoadReg(s, "y", (s.y - 1) % 256)

eor_with(r) == LoadReg(r.s, "a", BitXor(r.s.a, r.v))

eor(s, mode) == eor_with(get_data_from_addressing_mode(s, mode))

inc(s, mode) == modify_with(get_address_from_mode(s, mode), 1)

\* an inx that stops at 0xFF instead of wrapping
inx_mutated(s) == LoadReg(s, "x", IF s.x = \hFF THEN \hFF ELSE s.x + 1)

inx(s) == LoadReg(s, "x", (s.x + 1) % 256)

iny(s) == LoadReg(s, "y", (s.y + 1) % 256)

jmp(s, mode) == SetPc(get_address_from_mode(s, mode))

jsr_with(ret) ==
    SetPc(get_address_from_mode(stack_push_addr(ret.s, ret.v), "Absolute"))

\* a jsr that pushes the address of its operand
jsr_mutated(s) == jsr_with([s |-> s, v |-> s.pc])

\* push pc + 1 (the opcode's address + 2), then pc = the absolute operand
jsr(s) == jsr_with(Add16(s, s.pc, 1))

load_with(r, reg) == LoadReg(r.s, reg, r.v)

lda(s, mode) == load_with(get_data_from_addressing_mode(s, mode), "a")

ldx(s, mode) == load_with(get_data_from_addressing_mode(s, mode), "x")

ldy(s, mode) == load_with(get_data_from_addressing_mode(s, mode), "y")

lsr_with(r, mode) ==
    store_result(set_zero_negative_flags(set_flag_carry(r.s, BitAnd(r.v, 1) = 1),
                                         r.v \div 2),
                 mode, r.v \div 2)

lsr(s, mode) == lsr_with(load_operand(s, mode), mode)

ora_with(r) == LoadReg(r.s, "a", BitOr(r.s.a, r.v))

ora(s, mode) == ora_with(get_data_from_addressing_mode(s, mode))

pha(s) == stack_push(s, s.a)

\* a php that pushes P with the break bit and the unused bit set
php_mutated(s) == stack_push(s, BitOr(s.p, \h30))

php(s) == stack_push(s, s.p)

pla(s) == load_with(stack_pop(s), "a")

plp_with(r) == SetReg(r.s, "p", r.v)

plp(s) == plp_with(stack_pop(s))

rol_result(r) == BitOr((r.v * 2) % 256, IF get_flag_carry(r.s) THEN 1 ELSE 0)

rol_with(r, mode) ==
    store_result(set_zero_negative_flags(set_flag_carry(r.s, BitAnd(r.v, 128) = 128),
                                         rol_result(r)),
                 mode, rol_result(r))

\* a rotation to the left that shifts a 0 in
rol_mutated(s, mode) == asl(s, mode)

rol(s, mode) == rol_with(load_operand(s, mode), mode)

\* the old carry is or-ed in as it is, at bit 0
ror_result(r) == BitOr(r.v \div 2, IF get_flag_carry(r.s) THEN 1 ELSE 0)

ror_with(r, mode) ==
    store_result(set_zero_negative_flags(set_flag_carry(r.s, BitAnd(r.v, 1) = 1),
                                         ror_result(r)),
                 mode, ror_result(r))

ror(s, mode) == ror_with(load_operand(s, mode), mode)

rti(s) == SetPc(stack_pop_addr(plp(s)))

\* an rts that resumes at the popped address itself
rts_with_mutated(r) == SetPc(r)

rts_with(r) == SetPc(Add16(r.s, r.v, 1))

\* pc = the popped address + 1
rts(s) == rts_with(stack_pop_addr(s))

sbc_with(d) == IF d.s.ok THEN add_to_accumulator_with_carry(d.s, d.v) ELSE d.s

\* an operand of the adder that is the complement of the data itself
sbc_operand_mutated(r) == [s |-> r.s, v |-> BitNot(r.v)]

sbc_operand(r) == Sub8(r.s, BitNot(r.v), 1)

\* the operand handed to the adder is !data - 1
sbc(s, mode) == sbc_with(sbc_operand(get_data_from_addressing_mode(s, mode)))

sec(s) == set_flag_carry(s, TRUE)

sed(s) == set_flag_decimal(s, TRUE)

sei(s) == set_flag_interrupt_disable(s, TRUE)

\* STA, STX, STY: the register is read after the address is resolved
store_with(r, reg) == write(r.s, r.v, r.s[reg])

sta(s, mode) == store_with(get_address_from_mode(s, mode), "a")

stx(s, mode) == store_with(get_address_from_mode(s, mode), "x")

sty(s, mode) == store_with(get_address_from_mode(s, mode), "y")

tax(s) == LoadReg(s, "x", s.a)

tay(s) == LoadReg(s, "y", s.a)

tsx(s) == LoadReg(s, "x", s.sp)

txa(s) == LoadReg(s, "a", s.x)

\* a TXS that sets Z and N as the other transfers do
txs_mutated(s) == LoadReg(s, "sp", s.x)

txs(s) == SetReg(s, "sp", s.x)

tya(s) == LoadReg(s, "a", s.y)

-----------------------------------------------------------------------------
(* The decode table.                                                       *)

\* the match of execute_instruction, t the Cpu after pc += 1: NOP, BRK and every
\* opcode outside the table change nothing more
dispatch(t, opcode) ==
    CASE opcode = \h69 -> adc(t, "Immediate")
      [] opcode = \h65 -> adc(t, "ZeroPage")
      [] opcode = \h75 -> adc(t, "ZeroPageX")
      [] opcode = \h6D -> adc(t, "Absolute")
      [] opcode = \h7D -> adc(t, "AbsoluteX")
      [] opcode = \h79 -> adc(t, "AbsoluteY")
      [] opcode = \h61 -> adc(t, "IndirectX")
      [] opcode = \h71 -> adc(t, "IndirectY")
      [] opcode = \h29 -> and(t, "Immediate")
      [] opcode = \h25 -> and(t, "ZeroPage")
      [] opcode = \h35 -> and(t, "ZeroPageX")
      [] opcode = \h2D -> and(t, "Absolute")
      [] opcode = \h3D -> and(t, "AbsoluteX")
      [] opcode = \h39 -> and(t, "AbsoluteY")
      [] opcode = \h21 -> and(t, "IndirectX")
      [] opcode = \h31 -> and(t, "IndirectY")
      [] opcode = \h0A -> asl(t, "None")
      [] opcode = \h06 -> asl(t, "ZeroPage")
      [] opcode = \h16 -> asl(t, "ZeroPageX")
      [] opcode = \h0E -> asl(t, "Absolute")
      [] opcode = \h1E -> asl(t, "AbsoluteX")
      [] opcode = \h90 -> bcc(t)
      [] opcode = \hB0 -> bcs(t)
      [] opcode = \hF0 -> beq(t)
      [] opcode = \h24 -> bit(t, "ZeroPage")
      [] opcode = \h2C -> bit(t, "Absolute")
      [] opcode = \h30 -> bmi(t)
      [] opcode = \hD0 -> bne(t)
      [] opcode = \h10 -> bpl(t)
      [] opcode = \h50 -> bvc(t)
      [] opcode = \h70 -> bvs(t)
      [] opcode = \h18 -> clc(t)
      [] opcode = \hD8 -> cld(t)
      [] opcode = \h58 -> cli(t)
      [] opcode = \hB8 -> clv(t)
      [] opcode = \hC9 -> cmp(t, "Immediate")
      [] opcode = \hC5 -> cmp(t, "ZeroPage")
      [] opcode = \hD5 -> cmp(t, "ZeroPageX")
      [] opcode = \hCD -> cmp(t, "Absolute")
      [] opcode = \hDD -> cmp(t, "AbsoluteX")
      [] opcode = \hD9 -> cmp(t, "AbsoluteY")
      [] opcode = \hC1 -> cmp(t, "IndirectX")
      [] opcode = \hD1 -> cmp(t, "IndirectY")
      [] opcode = \hE0 -> cpx(t, "Immediate")
      [] opcode = \hE4 -> cpx(t, "ZeroPage")
      [] opcode = \hEC -> cpx(t, "Absolute")
      [] opcode = \hC0 -> cpy(t, "Immediate")
      [] opcode = \hC4 -> cpy(t, "ZeroPage")
      [] opcode = \hCC -> cpy(t, "Absolute")
      [] opcode = \hC6 -> dec(t, "ZeroPage")
      [] opcode = \hD6 -> dec(t, "ZeroPageX")
      [] opcode = \hCE -> dec(t, "Absolute")
      [] opcode = \hDE -> dec(t, "AbsoluteX")
      [] opcode = \hCA -> dex(t)
      [] opcode = \h88 -> dey(t)
      [] opcode = \h49 -> eor(t, "Immediate")
      [] opcode = \h45 -> eor(t, "ZeroPage")
      [] opcode = \h55 -> eor(t, "ZeroPageX")
      [] opcode = \h4D -> eor(t, "Absolute")
      [] opcode = \h5D -> eor(t, "AbsoluteX")
      [] opcode = \h59 -> eor(t, "AbsoluteY")
      [] opcode = \h41 -> eor(t, "IndirectX")
      [] opcode = \h51 -> eor(t, "IndirectY")
      [] opcode = \hE6 -> inc(t, "ZeroPage")
      [] opcode = \hF6 -> inc(t, "ZeroPageX")
      [] opcode = \hEE -> inc(t, "Absolute")
      [] opcode = \hFE -> inc(t, "AbsoluteX")
      [] opcode = \hE8 -> inx(t)
      [] opcode = \hC8 -> iny(t)
      [] opcode = \h4C -> jmp(t, "Absolute")
      [] opcode = \h6C -> jmp(t, "Indirect")
      [] opcode = \h20 -> jsr(t)
      [] opcode = \hA9 -> lda(t, "Immediate")
      [] opcode = \hA5 -> lda(t, "ZeroPage")
      [] opcode = \hB5 -> lda(t, "ZeroPageX")
      [] opcode = \hAD -> lda(t, "Absolute")
      [] opcode = \hBD -> lda(t, "AbsoluteX")
      [] opcode = \hB9 -> lda(t, "AbsoluteY")
      [] opcode = \hA1 -> lda(t, "IndirectX")
      [] opcode = \hB1 -> lda(t, "IndirectY")
      [] opcode = \hA2 -> ldx(t, "Immediate")
      [] opcode = \hA6 -> ldx(t, "ZeroPage")
      [] opcode = \hB6 -> ldx(t, "ZeroPageY")
      [] opcode = \hAE -> ldx(t, "Absolute")
      [] opcode = \hBE -> ldx(t, "AbsoluteY")
      [] opcode = \hA0 -> ldy(t, "Immediate")
      [] opcode = \hA4 -> ldy(t, "ZeroPage")
      [] opcode = \hB4 -> ldy(t, "ZeroPageX")
      [] opcode = \hAC -> ldy(t, "Absolute")
      [] opcode = \hBC -> ldy(t, "AbsoluteX")
      [] opcode = \h4A -> lsr(t, "None")
      [] opcode = \h46 -> lsr(t, "ZeroPage")
      [] opcode = \h56 -> lsr(t, "ZeroPageX")
      [] opcode = \h4E -> lsr(t, "Absolute")
      [] opcode = \h5E -> lsr(t, "AbsoluteX")
      [] opcode = \hEA -> t
      [] opcode = \h09 -> ora(t, "Immediate")
      [] opcode = \h05 -> ora(t, "ZeroPage")
      [] opcode = \h15 -> ora(t, "ZeroPageX")
      [] opcode = \h0D -> ora(t, "Absolute")
      [] opcode = \h1D -> ora(t, "AbsoluteX")
      [] opcode = \h19 -> ora(t, "AbsoluteY")
      [] opcode = \h01 -> ora(t, "IndirectX")
      [] opcode = \h11 -> ora(t, "IndirectY")
      [] opcode = \h48 -> pha(t)
      [] opcode = \h08 -> php(t)
      [] opcode = \h68 -> pla(t)
      [] opcode = \h28 -> plp(t)
      [] opcode = \h2A -> rol(t, "None")
      [] opcode = \h26 -> rol(t, "ZeroPage")
      [] opcode = \h36 -> rol(t, "ZeroPageX")
      [] opcode = \h2E -> rol(t, "Absolute")
      [] opcode = \h3E -> rol(t, "AbsoluteX")
      [] opcode = \h6A -> ror(t, "None")
      [] opcode = \h66 -> ror(t, "ZeroPage")
      [] opcode = \h76 -> ror(t, "ZeroPageX")
      [] opcode = \h6E -> ror(t, "Absolute")
      [] opcode = \h7E -> ror(t, "AbsoluteX")
      [] opcode = \h40 -> rti(t)
      [] opcode = \h60 -> rts(t)
      [] opcode = \hE9 -> sbc(t, "Immediate")
      [] opcode = \hE5 -> sbc(t, "ZeroPage")
      [] opcode = \hF5 -> sbc(t, "ZeroPageX")
      [] opcode = \hED -> sbc(t, "Absolute")
      [] opcode = \hFD -> sbc(t, "AbsoluteX")
      [] opcode = \hF9 -> sbc(t, "AbsoluteY")
      [] opcode = \hE1 -> sbc(t, "IndirectX")
      [] opcode = \hF1 -> sbc(t, "IndirectY")
      [] opcode = \h38 -> sec(t)
      [] opcode = \hF8 -> sed(t)
      [] opcode = \h78 -> sei(t)
      [] opcode = \h85 -> sta(t, "ZeroPage")
      [] opcode = \h95 -> sta(t, "ZeroPageX")
      [] opcode = \h8D -> sta(t, "Absolute")
      [] opcode = \h9D -> sta(t, "AbsoluteX")
      [] opcode = \h99 -> sta(t, "AbsoluteY")
      [] opcode = \h81 -> sta(t, "IndirectX")
      [] opcode = \h91 -> sta(t, "IndirectY")
      [] opcode = \h86 -> stx(t, "ZeroPage")
      [] opcode = \h96 -> stx(t, "ZeroPageY")
      [] opcode = \h8E -> stx(t, "Absolute")
      [] opcode = \h84 -> sty(t, "ZeroPage")
      [] opcode = \h94 -> sty(t, "ZeroPageX")
      [] opcode = \h8C -> sty(t, "Absolute")
      [] opcode = \hAA -> tax(t)
      [] opcode = \hA8 -> tay(t)
      [] opcode = \hBA -> tsx(t)
      [] opcode = \h8A -> txa(t)
      [] opcode = \h9A -> txs(t)
      [] opcode = \h98 -> tya(t)
      [] opcode = \h00 -> t
      [] OTHER -> t

\* pc += 1, then the handler of the opcode
\* an execute_instruction that skips a byte after an opcode of the form 0x_2
execute_instruction_skipping(s, opcode) ==
    dispatch(pc_add(s, IF opcode % 16 = 2 /\ opcode # \hA2 THEN 2 ELSE 1), opcode)

\* an execute_instruction that does not step over the opcode
execute_instruction_mutated(s, opcode) == dispatch(s, opcode)

\* self.registers.pc += 1, then the arm of the opcode
execute_instruction(s, opcode) == dispatch(pc_add(s, 1), opcode)

-----------------------------------------------------------------------------
(* The drivers: one iteration of execute()'s loop, and step().             *)

\* a loop that tests for 0x00 before it executes the opcode
execute_iteration_mutated(s) ==
    [s |-> IF read(s.mem, s.pc) = \h00 THEN s
           ELSE execute_instruction(s, read(s.mem, s.pc)),
     opcode |-> read(s.mem, s.pc),
     break |-> read(s.mem, s.pc) = \h00]

\* read the opcode at pc, execute it, and break when it was 0x00
execute_iteration(s) ==
    [s |-> execute_instruction(s, read(s.mem, s.pc)),
     opcode |-> read(s.mem, s.pc),
     break |-> read(s.mem, s.pc) = \h00]

\* a step that returns the byte at the program counter after the instruction
step_reread(t) == [s |-> t, v |-> read(t.mem, t.pc)]

step_mutated(s) == step_reread(execute_instruction(s, read(s.mem, s.pc)))

\* read the opcode at pc, execute it, and return it
step(s) ==
    [s |-> execute_instruction(s, read(s.mem, s.pc)), v |-> read(s.mem, s.pc)]

-----------------------------------------------------------------------------
(* The assembler (assembler/src/lib.rs).  A source is the Program its      *)
(* parser yields: a sequence of statements.  An Assembler is the record    *)
(* [source, pointer, labels], labels a function from label names to u16    *)
(* offsets.  A result is a record whose status is "ok", "err" (an          *)
(* AssemblerError was returned) or "panic" (the call aborted).             *)

\* the mnemonics whose label operand is a one-byte displacement
BranchMnemonics == {"BCC", "BCS", "BEQ", "BMI", "BNE", "BPL", "BVC", "BVS"}

\* the opcode map: <<byte, mnemonic, addressing mode>>
EncoderTable ==
    {<<\h69, "ADC", "IMM">>, <<\h65, "ADC", "RELZPG">>, <<\h75, "ADC", "ZPX">>,
     <<\h6D, "ADC", "ABS">>, <<\h7D, "ADC", "ABX">>, <<\h79, "ADC", "ABY">>,
     <<\h61, "ADC", "IDX">>, <<\h71, "ADC", "IDY">>, <<\h29, "AND", "IMM">>,
     <<\h25, "AND", "RELZPG">>, <<\h35, "AND", "ZPX">>, <<\h2D, "AND", "ABS">>,
     <<\h3D, "AND", "ABX">>, <<\h39, "AND", "ABY">>, <<\h21, "AND", "IDX">>,
     <<\h31, "AND", "IDY">>, <<\h0A, "ASL", "IMPACC">>, <<\h06, "ASL", "RELZPG">>,
     <<\h16, "ASL", "ZPX">>, <<\h0E, "ASL", "ABS">>, <<\h1E, "ASL", "ABX">>,
     <<\h90, "BCC", "RELZPG">>, <<\hB0, "BCS", "RELZPG">>, <<\hF0, "BEQ", "RELZPG">>,
     <<\h24, "BIT", "RELZPG">>, <<\h2C, "BIT", "ABS">>, <<\h30, "BMI", "RELZPG">>,
     <<\hD0, "BNE", "RELZPG">>, <<\h10, "BPL", "RELZPG">>, <<\h50, "BVC", "RELZPG">>,
     <<\h70, "BVS", "RELZPG">>, <<\h18, "CLC", "IMPACC">>, <<\hD8, "CLD", "IMPACC">>,
     <<\h58, "CLI", "IMPACC">>, <<\hB8, "CLV", "IMPACC">>, <<\hC9, "CMP", "IMM">>,
     <<\hC5, "CMP", "RELZPG">>, <<\hD5, "CMP", "ZPX">>, <<\hCD, "CMP", "ABS">>,
     <<\hDD, "CMP", "ABX">>, <<\hD9, "CMP", "ABY">>, <<\hC1, "CMP", "IDX">>,
     <<\hD1, "CMP", "IDY">>, <<\hE0, "CPX", "IMM">>, <<\hE4, "CPX", "RELZPG">>,
     <<\hEC, "CPX", "ABS">>, <<\hC0, "CPY", "IMM">>, <<\hC4, "CPY", "RELZPG">>,
     <<\hCC, "CPY", "ABS">>, <<\hC6, "DEC", "RELZPG">>, <<\hD6, "DEC", "ZPX">>,
     <<\hCE, "DEC", "ABS">>, <<\hDE, "DEC", "ABX">>, <<\hCA, "DEX", "IMPACC">>,
     <<\h88, "DEY", "IMPACC">>, <<\h49, "EOR", "IMM">>, <<\h45, "EOR", "RELZPG">>,
     <<\h55, "EOR", "ZPX">>, <<\h4D, "EOR", "ABS">>, <<\h5D, "EOR", "ABX">>,
     <<\h59, "EOR", "ABY">>, <<\h41, "EOR", "IDX">>, <<\h51, "EOR", "IDY">>,
     <<\hE6, "INC", "RELZPG">>, <<\hF6, "INC", "ZPX">>, <<\hEE, "INC", "ABS">>,
     <<\hFE, "INC", "ABX">>, <<\hE8, "INX", "IMPACC">>, <<\hC8, "INY", "IMPACC">>,
     <<\h4C, "JMP", "ABS">>, <<\h6C, "JMP", "IND">>, <<\h20, "JSR", "ABS">>,
     <<\hA9, "LDA", "IMM">>, <<\hA5, "LDA", "RELZPG">>, <<\hB5, "LDA", "ZPX">>,
     <<\hAD, "LDA", "ABS">>, <<\hBD, "LDA", "ABX">>, <<\hB9, "LDA", "ABY">>,
     <<\hA1, "LDA", "IDX">>, <<\hB1, "LDA", "IDY">>, <<\hA2, "LDX", "IMM">>,
     <<\hA6, "LDX", "RELZPG">>, <<\hB6, "LDX", "ZPY">>, <<\hAE, "LDX", "ABS">>,
     <<\hBE, "LDX", "ABY">>, <<\hA0, "LDY", "IMM">>, <<\hA4, "LDY", "RELZPG">>,
     <<\hB4, "LDY", "ZPX">>, <<\hAC, "LDY", "ABS">>, <<\hBC, "LDY", "ABX">>,
     <<\h4A, "LSR", "IMPACC">>, <<\h46, "LSR", "RELZPG">>, <<\h56, "LSR", "ZPX">>,
     <<\h4E, "LSR", "ABS">>, <<\h5E, "LSR", "ABX">>, <<\hEA, "NOP", "IMPACC">>,
     <<\h09, "ORA", "IMM">>, <<\h05, "ORA", "RELZPG">>, <<\h15, "ORA", "ZPX">>,
     <<\h0D, "ORA", "ABS">>, <<\h1D, "ORA", "ABX">>, <<\h19, "ORA", "ABY">>,
     <<\h01, "ORA", "IDX">>, <<\h11, "ORA", "IDY">>, <<\h48, "PHA", "IMPACC">>,
     <<\h08, "PHP", "IMPACC">>, <<\h68, "PLA", "IMPACC">>, <<\h28, "PLP", "IMPACC">>,
     <<\h2A, "ROL", "IMPACC">>, <<\h26, "ROL", "RELZPG">>, <<\h36, "ROL", "ZPX">>,
     <<\h2E, "ROL", "ABS">>, <<\h3E, "ROL", "ABX">>, <<\h6A, "ROR", "IMPACC">>,
     <<\h66, "ROR", "RELZPG">>, <<\h76, "ROR", "ZPX">>, <<\h6E, "ROR", "ABS">>,
     <<\h7E, "ROR", "ABX">>, <<\h40, "RTI", "IMPACC">>, <<\h60, "RTS", "IMPACC">>,
     <<\hE9, "SBC", "IMM">>, <<\hE5, "SBC", "RELZPG">>, <<\hF5, "SBC", "ZPX">>,
     <<\hED, "SBC", "ABS">>, <<\hFD, "SBC", "ABX">>, <<\hF9, "SBC", "ABY">>,
     <<\hE1, "SBC", "IDX">>, <<\hF1, "SBC", "IDY">>, <<\h38, "SEC", "IMPACC">>,
     <<\hF8, "SED", "IMPACC">>, <<\h78, "SEI", "IMPACC">>, <<\h85, "STA", "RELZPG">>,
     <<\h95, "STA", "ZPX">>, <<\h8D, "STA", "ABS">>, <<\h9D, "STA", "ABX">>,
     <<\h99, "STA", "ABY">>, <<\h81, "STA", "IDX">>, <<\h91, "STA", "IDY">>,
     <<\h86, "STX", "RELZPG">>, <<\h96, "STX", "ZPY">>, <<\h8E, "STX", "ABS">>,
     <<\h84, "STY", "RELZPG">>, <<\h94, "STY", "ZPX">>, <<\h8C, "STY", "ABS">>,
     <<\hAA, "TAX", "IMPACC">>, <<\hA8, "TAY", "IMPACC">>, <<\hBA, "TSX", "IMPACC">>,
     <<\h8A, "TXA", "IMPACC">>, <<\h9A, "TXS", "IMPACC">>, <<\h98, "TYA", "IMPACC">>,
     <<\h00, "BRK", "IMPACC">>}

\* Statement::Label(name)
LabelStatement(name) ==
    [kind |-> "Label", label |-> name, opcode |-> "", addressing_mode |-> "",
     value |-> [t |-> "None", nt |-> "", v |-> 0, label |-> ""],
     position |-> <<0, 0>>]

\* Statement::Instruction(Instruction { opcode, operand: { value, addressing_mode },
\* position }); value.t is "None", "Number" (of the NumberType nt) or "Label"
InstructionStatement(opcode, addressing_mode, value) ==
    [kind |-> "Instruction", label |-> "", opcode |-> opcode,
     addressing_mode |-> addressing_mode, value |-> value, position |-> <<0, 0>>]

\* the Err(InvalidInstruction) or the byte of instruction_to_byte
instruction_to_byte(opcode, mode, position) ==
    IF \E e \in EncoderTable : e[2] = opcode /\ e[3] = mode
    THEN [status |-> "ok",
          byte |-> (CHOOSE e \in EncoderTable : e[2] = opcode /\ e[3] = mode)[1]]
    ELSE [status |-> "err", kind |-> "InvalidInstruction", what |-> <<opcode, mode>>,
          position |-> position]

\* the Err(InvalidOpcode) or the (Mnemonics, AddressingMode) of byte_to_opcode
byte_to_opcode(byte) ==
    IF \E e \in EncoderTable : e[1] = byte
    THEN [status |-> "ok",
          opcode |-> (CHOOSE e \in EncoderTable : e[1] = byte)[2],
          mode |-> (CHOOSE e \in EncoderTable : e[1] = byte)[3]]
    ELSE [status |-> "err", kind |-> "InvalidOpcode", what |-> byte,
          position |-> <<0, 0>>]

\* Assembler::new(source)
NewAssembler(source) == [source |-> source, pointer |-> 0, labels |-> <<>>]

\* self.labels.insert(label, offset)
labels_insert(labels, label, offset) ==
    [n \in DOMAIN labels \cup {label} |-> IF n = label THEN offset ELSE labels[n]]

\* a pass 1 that counts two bytes for every label operand
preprocess_operand_mutated(pointer, instruction) ==
    CASE instruction.value.t = "None" -> pointer
      [] instruction.value.t = "Number" ->
            IF instruction.value.nt \in {"Decimal8", "Hexadecimal8"}
            THEN pointer + 1 ELSE pointer + 2
      [] instruction.value.t = "Label" -> pointer + 2

\* the cursor after the operand of an instruction, in pass 1
preprocess_operand(pointer, instruction) ==
    CASE instruction.value.t = "None" -> pointer
      [] instruction.value.t = "Number" ->
            IF instruction.value.nt \in {"Decimal8", "Hexadecimal8"}
            THEN pointer + 1 ELSE pointer + 2
      [] instruction.value.t = "Label" ->
            IF instruction.opcode \in BranchMnemonics
            THEN pointer + 1 ELSE pointer + 2

\* the Assembler after one statement of pass 1
preprocess_statement(asm, statement) ==
    IF statement.kind = "Instruction"
    THEN [asm EXCEPT !.pointer = preprocess_operand(asm.pointer + 1, statement)]
    ELSE [asm EXCEPT !.labels =
                labels_insert(asm.labels, statement.label, asm.pointer % 65536)]

\* the first loop of assemble
RECURSIVE preprocess(_, _)
preprocess(asm, statements) ==
    IF statements = <<>> THEN asm
    ELSE preprocess(preprocess_statement(asm, Head(statements)), Tail(statements))

\* v as i16
AsI16(v) == IF v % 65536 > 32767 THEN (v % 65536) - 65536 ELSE v % 65536

\* the i16 difference u - v: a panic in a build with overflow checks when it is
\* not an i16, the wrapped difference otherwise
SubI16(r, v) ==
    IF r.status # "ok" THEN r
    ELSE IF r.v - v < -32768 \/ r.v - v > 32767
         THEN (IF overflow_checks THEN [status |-> "panic", v |-> 0]
               ELSE [status |-> "ok", v |-> AsI16(r.v - v)])
         ELSE [status |-> "ok", v |-> r.v - v]

\* a displacement counted from the operand byte of the branch
relative_address_from_operand(address, pointer) ==
    SubI16(SubI16([status |-> "ok", v |-> AsI16(address)], AsI16(pointer)), 1)

\* a displacement counted from the branch opcode itself
relative_address_mutated(address, pointer) ==
    SubI16([status |-> "ok", v |-> AsI16(address)], AsI16(pointer))

\* (*address as i16 - self.pointer as i16 - 2) as u8
relative_address(address, pointer) ==
    SubI16(SubI16([status |-> "ok", v |-> AsI16(address)], AsI16(pointer)), 2)

\* *address + 0x8000, a u16
absolute_address(address) ==
    IF address + \h8000 > 65535
    THEN (IF overflow_checks THEN [status |-> "panic", v |-> 0]
          ELSE [status |-> "ok", v |-> (address + \h8000) % 65536])
    ELSE [status |-> "ok", v |-> address + \h8000]

\* the bytes of a resolved label operand
label_bytes(r, width, mode) ==
    [status |-> r.status,
     bytes |-> IF r.status # "ok" THEN <<>>
               ELSE IF width = 1 THEN <<r.v % 256>>
               ELSE <<r.v % 256, r.v \div 256>>,
     mode |-> mode]

\* Ok((bytes, addressing_mode)) or Err(InvalidLabel)
assemble_operand_data(asm, instruction) ==
    CASE instruction.value.t = "None" ->
            [status |-> "ok", bytes |-> <<>>, mode |-> "IMPACC"]
      [] instruction.value.t = "Number" ->
            [status |-> "ok",
             bytes |-> IF instruction.value.nt \in {"Decimal8", "Hexadecimal8"}
                       THEN <<instruction.value.v>>
                       ELSE <<instruction.value.v % 256, instruction.value.v \div 256>>,
             mode |-> instruction.addressing_mode]
      [] instruction.value.t = "Label" ->
            IF instruction.value.label \notin DOMAIN asm.labels
            THEN [status |-> "err", kind |-> "InvalidLabel",
                  what |-> instruction.value.label,
                  position |-> instruction.position]
            ELSE IF instruction.opcode \in BranchMnemonics
            THEN label_bytes(relative_address(asm.labels[instruction.value.label],
                                              asm.pointer),
                             1, instruction.addressing_mode)
            ELSE label_bytes(absolute_address(asm.labels[instruction.value.label]),
                             2, instruction.addressing_mode)

\* the opcode byte before the operand bytes, and the cursor moved past them
assemble_instruction_with(asm, operand, byte) ==
    IF operand.status # "ok" THEN [status |-> operand.status, err |-> operand, asm |-> asm]
    ELSE IF byte.status # "ok" THEN [status |-> "err", err |-> byte, asm |-> asm]
    ELSE [status |-> "ok", bytes |-> <<byte.byte>> \o operand.bytes,
          asm |-> [asm EXCEPT !.pointer = asm.pointer + 1 + Len(operand.bytes)]]

assemble_instruction_from(asm, instruction, operand) ==
    assemble_instruction_with(asm, operand,
        IF operand.status = "ok"
        THEN instruction_to_byte(instruction.opcode, operand.mode,
                                 instruction.position)
        ELSE operand)

assemble_instruction(asm, instruction) ==
    assemble_instruction_from(asm, instruction,
                              assemble_operand_data(asm, instruction))

\* the second loop of assemble: chunks holds the bytes of each instruction so far
RECURSIVE emit(_, _, _)
\* a second loop that leaves out an instruction that failed and goes on
emit_next_mutated(r, statements, chunks) ==
    emit(r.asm, statements, IF r.status = "ok" THEN Append(chunks, r.bytes) ELSE chunks)

emit_next(r, statements, chunks) ==
    IF r.status # "ok"
    THEN [status |-> r.status, err |-> r.err, chunks |-> chunks, asm |-> r.asm]
    ELSE emit(r.asm, statements, Append(chunks, r.bytes))

emit(asm, statements, chunks) ==
    IF statements = <<>> THEN [status |-> "ok", chunks |-> chunks, asm |-> asm]
    ELSE IF Head(statements).kind # "Instruction"
    THEN emit(asm, Tail(statements), chunks)
    ELSE emit_next(assemble_instruction(asm, Head(statements)), Tail(statements),
                   chunks)

\* the concatenation of the chunks
RECURSIVE Flatten(_)
Flatten(chunks) == IF chunks = <<>> THEN <<>> ELSE Head(chunks) \o Flatten(Tail(chunks))

\* Assembler::assemble: pass 1, the cursor back to 0, pass 2
assemble(asm) ==
    emit([preprocess(asm, asm.source) EXCEPT !.pointer = 0], asm.source, <<>>)

\* the number of operand bytes disassemble reads for a mode
operand_width(mode) ==
    IF mode = "IMPACC" THEN 0
    ELSE IF mode \in {"ABS", "ABX", "ABY", "IND"} THEN 2 ELSE 1

\* a line whose 16-bit operand is read high byte first
disassemble_line_mutated(bytes, pointer, d) ==
    [pointer |-> pointer,
     bytes |-> SubSeq(bytes, pointer + 1, pointer + 1 + operand_width(d.mode)),
     line |-> [opcode |-> d.opcode,
               shape |-> CASE d.mode = "IMPACC" -> ""
                           [] d.mode = "IMM" -> "#$n"
                           [] d.mode \in {"RELZPG", "ABS"} -> "$n"
                           [] d.mode \in {"ZPX", "ABX"} -> "$n,X"
                           [] d.mode \in {"ZPY", "ABY"} -> "$n,Y"
                           [] d.mode = "IND" -> "($n)"
                           [] d.mode = "IDX" -> "($n,X)"
                           [] d.mode = "IDY" -> "($n),Y",
               digits |-> 2 * operand_width(d.mode),
               value |-> CASE operand_width(d.mode) = 0 -> 0
                           [] operand_width(d.mode) = 1 -> bytes[pointer + 2]
                           [] operand_width(d.mode) = 2 ->
                                 256 * bytes[pointer + 2] + bytes[pointer + 3]]]

\* the tuple (pointer, bytes, line) of the instruction at pointer; the line is
\* the mnemonic, the shape of the operand syntax, and the operand printed with 2
\* or 4 hexadecimal digits
disassemble_line(bytes, pointer, d) ==
    [pointer |-> pointer,
     bytes |-> SubSeq(bytes, pointer + 1, pointer + 1 + operand_width(d.mode)),
     line |-> [opcode |-> d.opcode,
               shape |-> CASE d.mode = "IMPACC" -> ""
                           [] d.mode = "IMM" -> "#$n"
                           [] d.mode \in {"RELZPG", "ABS"} -> "$n"
                           [] d.mode \in {"ZPX", "ABX"} -> "$n,X"
                           [] d.mode \in {"ZPY", "ABY"} -> "$n,Y"
                           [] d.mode = "IND" -> "($n)"
                           [] d.mode = "IDX" -> "($n,X)"
                           [] d.mode = "IDY" -> "($n),Y",
               digits |-> 2 * operand_width(d.mode),
               value |-> CASE operand_width(d.mode) = 0 -> 0
                           [] operand_width(d.mode) = 1 -> bytes[pointer + 2]
                           [] operand_width(d.mode) = 2 ->
                                 bytes[pointer + 2] + 256 * bytes[pointer + 3]]]

\* the loop of disassemble from the 0-based offset pointer on; an index past
\* the end of bytes is a panic
RECURSIVE disassemble_from(_, _, _)
\* a loop that goes on after a BRK
disassemble_decoded_mutated(bytes, pointer, result, d) ==
    IF d.status # "ok" THEN [status |-> "err", err |-> d, listing |-> <<>>]
    ELSE IF pointer + 1 + operand_width(d.mode) > Len(bytes)
    THEN [status |-> "panic", err |-> d, listing |-> <<>>]
    ELSE disassemble_from(bytes, pointer + 1 + operand_width(d.mode),
                          Append(result, disassemble_line(bytes, pointer, d)))

\* a loop that ends at an undecodable byte with the tuples it has
disassemble_decoded_partial(bytes, pointer, result, d) ==
    IF d.status # "ok" THEN [status |-> "ok", err |-> d, listing |-> result]
    ELSE IF pointer + 1 + operand_width(d.mode) > Len(bytes)
    THEN [status |-> "panic", err |-> d, listing |-> <<>>]
    ELSE IF d.opcode = "BRK"
    THEN [status |-> "ok", err |-> d,
          listing |-> Append(result, disassemble_line(bytes, pointer, d))]
    ELSE disassemble_from(bytes, pointer + 1 + operand_width(d.mode),
                          Append(result, disassemble_line(bytes, pointer, d)))

disassemble_decoded(bytes, pointer, result, d) ==
    IF d.status # "ok" THEN [status |-> "err", err |-> d, listing |-> <<>>]
    ELSE IF pointer + 1 + operand_width(d.mode) > Len(bytes)
    THEN [status |-> "panic", err |-> d, listing |-> <<>>]
    ELSE IF d.opcode = "BRK"
    THEN [status |-> "ok", err |-> d,
          listing |-> Append(result, disassemble_line(bytes, pointer, d))]
    ELSE disassemble_from(bytes, pointer + 1 + operand_width(d.mode),
                          Append(result, disassemble_line(bytes, pointer, d)))

disassemble_from(bytes, pointer, result) ==
    IF pointer >= Len(bytes)
    THEN [status |-> "ok", err |-> byte_to_opcode(\h00), listing |-> result]
    ELSE disassemble_decoded(bytes, pointer, result, byte_to_opcode(bytes[pointer + 1]))

disassemble(bytes) == disassemble_from(bytes, 0, <<>>)

\* the statement the parser yields for a line of a listing: a number of 1 or 2
\* hexadecimal digits is 8 bits wide, one of 3 or 4 is 16 bits wide, and the
\* width chooses between the zero-page and the absolute mode of a shape
parse_line(line) ==
    InstructionStatement(
        line.opcode,
        CASE line.shape = "" -> "IMPACC"
          [] line.shape = "#$n" -> "IMM"
          [] line.shape = "$n" -> IF line.digits <= 2 THEN "RELZPG" ELSE "ABS"
          [] line.shape = "$n,X" -> IF line.digits <= 2 THEN "ZPX" ELSE "ABX"
          [] line.shape = "$n,Y" -> IF line.digits <= 2 THEN "ZPY" ELSE "ABY"
          [] line.shape = "($n)" -> "IND"
          [] line.shape = "($n,X)" -> "IDX"
          [] line.shape = "($n),Y" -> "IDY",
        IF line.shape = "" THEN [t |-> "None", nt |-> "", v |-> 0, label |-> ""]
        ELSE [t |-> "Number",
              nt |-> IF line.digits <= 2 THEN "Hexadecimal8" ELSE "Hexadecimal16",
              v |-> line.value, label |-> ""])

\* the Program of a source with one of the statements on each line
Source(statements) ==
    [i \in DOMAIN statements |-> [statements[i] EXCEPT !.position = <<i, 1>>]]

-----------------------------------------------------------------------------
(* The state machine.                                                      *)

\* the Cpu the variables hold
Cpu == [a |-> a, x |-> x, y |-> y, p |-> p, sp |-> sp, pc |-> pc, mem |-> memory,
        ok |-> status # "panicked"]

\* the variables hold the Cpu s in the next state
Becomes(s) ==
    /\ a' = s.a /\ x' = s.x /\ y' = s.y /\ p' = s.p /\ sp' = s.sp /\ pc' = s.pc
    /\ memory' = s.mem

Op(op, arg, ret, pre) == [op |-> op, arg |-> arg, ret |-> ret, pre |-> pre]

NoOp == Op("none", 0, -1, registers_reset(EmptyMemory))

NoCall == [at |-> -1, sp |-> 0, after |-> registers_reset(EmptyMemory)]

\* the host holds the Cpu s and has called nothing on it yet; the registers and the
\* memory are public fields, which a host sets as it likes
HostCpu(s) ==
    /\ a = s.a /\ x = s.x /\ y = s.y /\ p = s.p /\ sp = s.sp /\ pc = s.pc
    /\ memory = s.mem
    /\ status = "idle"
    /\ last = Op("new", 0, -1, s)
    /\ prior = NoOp
    /\ call = NoCall
    /\ calls = 0
    /\ iter = 0
    /\ dbg = s
    /\ dbg_ret = -1

\* nothing was called on the assembler r, an Assembler::new(...), yet
NoTool(r) == [op |-> "new", ret |-> r, listing |-> r, again |-> r]

\* the host of a Cpu, which assembles nothing
Host(s) ==
    /\ HostCpu(s)
    /\ assembler = NewAssembler(<<>>)
    /\ tool = NoTool(NewAssembler(<<>>))

\* Cpu::new / Cpu::default, in either build
Init ==
    /\ overflow_checks \in BOOLEAN
    /\ Host(registers_reset(EmptyMemory))

MaxProgramLen == 3

ProgramBytes == {\h00, \h80, \h4C, \hA9, \hEA, \h20, \h60}

Programs == UNION {[1..n -> ProgramBytes] : n \in 0..MaxProgramLen}

Idle == status \in {"idle", "returned"}

\* 0 for a Cpu as reset leaves it, the number of registers and memory bytes that
\* differ otherwise (the history of a reset keeps this, not the Cpu)
Dirty(s) ==
    Cardinality({f \in {"a", "x", "y", "p", "sp", "pc"} :
                    s[f] # registers_reset(EmptyMemory)[f]})
    + Cardinality(DOMAIN s.mem)

\* Cpu::reset: registers.reset() and memory.reset(); the host resets the second
\* Cpu with the first
Reset ==
    /\ Idle
    /\ Becomes(registers_reset(EmptyMemory))
    /\ status' = "idle"
    /\ last' = Op("reset", Dirty(Cpu), -1, registers_reset(EmptyMemory))
    /\ prior' = NoOp
    /\ call' = NoCall
    /\ iter' = 0
    /\ dbg' = registers_reset(EmptyMemory)
    /\ dbg_ret' = -1
    /\ UNCHANGED <<overflow_checks, calls,
                   assembler, tool>>

\* Cpu::load, which the host calls on a Cpu it has just reset
Load(program) ==
    /\ status = "idle"
    /\ last.op = "reset"
    /\ memory' = rom(memory, program)
    /\ last' = Op("load", Len(program), -1, Cpu)
    /\ prior' = NoOp
    /\ UNCHANGED <<a, x, y, p, sp, pc, status, overflow_checks, call, calls, iter,
                   dbg, dbg_ret,
                   assembler, tool>>

\* the host calls Cpu::execute; the second Cpu is brought to the same state
Execute ==
    /\ status = "idle"
    /\ status' = "running"
    /\ dbg' = Cpu
    /\ dbg_ret' = -1
    /\ UNCHANGED <<a, x, y, p, sp, pc, memory, overflow_checks, last, prior, call,
                   calls, iter,
                   assembler, tool>>

\* the JSR that took the Cpu s to t, if the opcode was one and it completed
RecordCall(s, opcode, t) ==
    IF opcode = \h20 /\ t.ok
    THEN [at |-> s.pc, sp |-> s.sp, after |-> t]
    ELSE call

Iterated(r) ==
    /\ Becomes(r.s)
    /\ status' = IF ~r.s.ok THEN "panicked"
                 ELSE IF r.break THEN "returned" ELSE "running"
    /\ last' = Op("execute", r.opcode, -1, Cpu)
    /\ prior' = last
    /\ call' = RecordCall(Cpu, r.opcode, r.s)

\* one iteration of the loop of Cpu::execute
ExecuteLoop ==
    /\ status = "running"
    /\ Iterated(execute_iteration(Cpu))
    /\ iter' = 1 - iter
    /\ UNCHANGED <<overflow_checks, calls, dbg, dbg_ret,
                   assembler, tool>>

DebugStepped(r) == dbg' = r.s /\ dbg_ret' = r.v

\* the host calls CpuDebugger::step on the second Cpu, once execute has returned
\* on the first, until a call returns 0x00
DebugStep ==
    /\ status = "returned"
    /\ dbg.ok
    /\ dbg_ret # \h00
    /\ DebugStepped(step(dbg))
    /\ UNCHANGED <<a, x, y, p, sp, pc, memory, status, overflow_checks, last, prior,
                   call, calls, iter,
                   assembler, tool>>

Next ==
    \/ Reset
    \/ \E program \in Programs : Load(program)
    \/ Execute
    \/ ExecuteLoop
    \/ DebugStep

Spec == Init /\ [][Next]_vars

\* what ExecuteLoop does to iter; a step of Next changes iter exactly when it is
\* an ExecuteLoop step
LoopRuns == status = "running" /\ iter' = 1 - iter

\* execute's loop has no suspension point: an iteration that can run does run
LiveSpec == Spec /\ WF_iter(LoopRuns)

-----------------------------------------------------------------------------
(* The host steps a Cpu it has set up, with CpuDebugger::step, until a call *)
(* returns 0x00 or it has made MaxSteps calls.                              *)

MaxSteps == 4

Stepped(r) ==
    /\ Becomes(r.s)
    /\ status' = IF r.s.ok THEN "idle" ELSE "panicked"
    /\ last' = Op("step", r.v, r.v, Cpu)
    /\ prior' = last
    /\ call' = RecordCall(Cpu, r.v, r.s)

Step ==
    /\ status = "idle"
    /\ calls < MaxSteps
    /\ ~(last.op = "step" /\ last.ret = \h00)
    /\ Stepped(step(Cpu))
    /\ calls' = calls + 1
    /\ UNCHANGED <<overflow_checks, iter, dbg, dbg_ret,
                   assembler, tool>>

\* the memory mem with the bytes of program from the address at on
RECURSIVE Poke(_, _, _)
Poke(mem, at, program) ==
    IF program = <<>> THEN mem
    ELSE Poke(mem_write(mem, at % 65536, Head(program)), at + 1, Tail(program))

-----------------------------------------------------------------------------
(* The host calls stack_push and stack_pop directly, MaxStackCalls times.  *)

MaxStackCalls == 2

StackBytes == {\h00, \h01, \h7F, \h80, \hFF}

InitStack ==
    /\ overflow_checks \in BOOLEAN
    /\ \E s0 \in Byte : Host([registers_reset(EmptyMemory) EXCEPT !.sp = s0])

StackPush(data) ==
    /\ status = "idle"
    /\ calls < MaxStackCalls
    /\ Becomes(stack_push(Cpu, data))
    /\ last' = Op("stack_push", data, -1, Cpu)
    /\ prior' = last
    /\ calls' = calls + 1
    /\ UNCHANGED <<status, overflow_checks, call, iter, dbg, dbg_ret,
                   assembler, tool>>

Popped(r) ==
    /\ Becomes(r.s)
    /\ last' = Op("stack_pop", 0, r.v, Cpu)

StackPop ==
    /\ status = "idle"
    /\ calls < MaxStackCalls
    /\ Popped(stack_pop(Cpu))
    /\ prior' = last
    /\ calls' = calls + 1
    /\ UNCHANGED <<status, overflow_checks, call, iter, dbg, dbg_ret,
                   assembler, tool>>

NextStack ==
    \/ \E data \in StackBytes : StackPush(data)
    \/ StackPop

SpecStack == InitStack /\ [][NextStack]_vars

-----------------------------------------------------------------------------
(* The host sets A, the carry and an ADC #m at ORG, and steps.             *)

InitAdc ==
    /\ overflow_checks \in BOOLEAN
    /\ \E a0 \in Byte, m \in Byte, c \in {0, 1} :
          Host([registers_reset(Poke(EmptyMemory, ORG, <<\h69, m>>))
                    EXCEPT !.a = a0, !.p = c])

SpecAdc == InitAdc /\ [][Step]_vars

-----------------------------------------------------------------------------
(* The host sets the flags and a branch instruction at pc, and steps.      *)

BranchOpcodes == {\h90, \hB0, \hF0, \hD0, \h30, \h10, \h50, \h70}

BranchOffsets == {\h00, \h01, \h02, \h7E, \h7F, \h80, \h81, \hFD, \hFE, \hFF}

BranchAddrs == {\h0000, \h0001, \h8000, \hFF7F, \hFFFD, \hFFFE, \hFFFF}

\* the values of P with bits of N, V, Z and C only
BranchFlags == {n + v + z + c : n \in {0, \h80}, v \in {0, \h40}, z \in {0, \h02},
                                c \in {0, \h01}}

InitBranch ==
    /\ overflow_checks \in BOOLEAN
    /\ \E opcode \in BranchOpcodes, d \in BranchOffsets, at \in BranchAddrs,
          flags \in BranchFlags :
          Host([registers_reset(Poke(EmptyMemory, at, <<opcode, d>>))
                    EXCEPT !.pc = at, !.p = flags])

SpecBranch == InitBranch /\ [][Step]_vars

-----------------------------------------------------------------------------
(* The host sets SP, a JSR at pc and a subroutine at its target, and steps.*)

CallAddrs == {\h8000, \h01FD, \hFFFB, \hFFFC, \hFFFD, \hFFFE, \hFFFF}

CallTargets == {\h9000, \h0180}

CallSps == {\h00, \h01, \h02, \h80, \hFF}

\* RTS; NOP RTS; PHA PLA RTS; PHA RTS; PLA RTS
CallBodies == {<<\h60>>, <<\hEA, \h60>>, <<\h48, \h68, \h60>>, <<\h48, \h60>>,
               <<\h68, \h60>>}

InitCall ==
    /\ overflow_checks \in BOOLEAN
    /\ \E at \in CallAddrs, target \in CallTargets, s0 \in CallSps,
          body \in CallBodies :
          Host([registers_reset(
                    Poke(Poke(EmptyMemory, target, body),
                         at, <<\h20, target % 256, target \div 256>>))
                    EXCEPT !.pc = at, !.sp = s0, !.a = \h5A])

SpecCall == InitCall /\ [][Step]_vars

-----------------------------------------------------------------------------
(* The host sets P, SP and the byte above the stack pointer, and steps     *)
(* through PHP PLP, PHP NOP PLP or a PLP alone.                            *)

StatusSps == {\h00, \h01, \hFF}

StatusBytes == {\h00, \h30, \hFF}

StatusPrograms == {<<\h08, \h28>>, <<\h08, \hEA, \h28>>, <<\h28>>}

InitStatus ==
    /\ overflow_checks \in BOOLEAN
    /\ \E p0 \in Byte, s0 \in StatusSps, v \in StatusBytes,
          program \in StatusPrograms :
          Host([registers_reset(
                    Poke(Poke(EmptyMemory, STACK_BASE + ((s0 + 1) % 256), <<v>>),
                         ORG, program))
                    EXCEPT !.p = p0, !.sp = s0])

SpecStatus == InitStatus /\ [][Step]_vars

-----------------------------------------------------------------------------
(* The host sets A, the carry and an SBC #m at ORG, and steps.             *)

InitSbc ==
    /\ overflow_checks \in BOOLEAN
    /\ \E a0 \in Byte, m \in Byte, c \in {0, 1} :
          Host([registers_reset(Poke(EmptyMemory, ORG, <<\hE9, m>>))
                    EXCEPT !.a = a0, !.p = c])

SpecSbc == InitSbc /\ [][Step]_vars

-----------------------------------------------------------------------------
(* The host sets the registers and any byte as the opcode at pc, followed  *)
(* by two operand bytes, and steps.                                        *)

OpcodeAddrs == {\h0000, \h8000, \hFFFE, \hFFFF}

OpcodeOperands == {<<\h00, \h00>>, <<\hEA, \h80>>}

OpcodeStatus == {\h00, \hFF}

InitOpcode ==
    /\ overflow_checks \in BOOLEAN
    /\ \E opcode \in Byte, operands \in OpcodeOperands, at \in OpcodeAddrs,
          flags \in OpcodeStatus, s0 \in StatusSps :
          Host([registers_reset(
                    Poke(Poke(EmptyMemory, \h0010, <<\h33, \h44>>),
                         at, <<opcode>> \o operands))
                    EXCEPT !.pc = at, !.a = \h5A, !.x = \h01, !.y = \h02,
                           !.p = flags, !.sp = s0])

SpecOpcode == InitOpcode /\ [][Step]_vars

-----------------------------------------------------------------------------
(* The host sets X, Y and the flags and an INX, INY, DEX or DEY at ORG,    *)
(* and steps.                                                              *)

IndexOpcodes == {\hE8, \hC8, \hCA, \h88}

IndexStatus == {\h00, \h41, \h82, \hFF}

InitIndex ==
    /\ overflow_checks \in BOOLEAN
    /\ \E opcode \in IndexOpcodes, v \in Byte, flags \in IndexStatus :
          Host([registers_reset(Poke(EmptyMemory, ORG, <<opcode>>))
                    EXCEPT !.x = v, !.y = \hFF - v, !.a = \h5A, !.sp = \h7F,
                           !.p = flags])

SpecIndex == InitIndex /\ [][Step]_vars

-----------------------------------------------------------------------------
(* The host assembles a source, disassembles the bytes it got, and         *)
(* assembles the lines of the listing again.                               *)

MaxStatements == 3

\* FOO:, LDA #$01, STA $0200, LDX 16,Y, BNE FOO, JMP FOO, BRK; two that fail:
\* BNE BAR, BAR never defined, and STA #$01, which has no opcode; and LDA #$1234,
\* whose number is wider than the operand of its mode
SourceStatements ==
    {LabelStatement("FOO"),
     InstructionStatement("LDA", "IMM",
         [t |-> "Number", nt |-> "Hexadecimal8", v |-> \h01, label |-> ""]),
     InstructionStatement("STA", "ABS",
         [t |-> "Number", nt |-> "Hexadecimal16", v |-> \h0200, label |-> ""]),
     InstructionStatement("LDX", "ZPY",
         [t |-> "Number", nt |-> "Decimal8", v |-> 16, label |-> ""]),
     InstructionStatement("BNE", "RELZPG",
         [t |-> "Label", nt |-> "", v |-> 0, label |-> "FOO"]),
     InstructionStatement("JMP", "ABS",
         [t |-> "Label", nt |-> "", v |-> 0, label |-> "FOO"]),
     InstructionStatement("BRK", "IMPACC",
         [t |-> "None", nt |-> "", v |-> 0, label |-> ""]),
     InstructionStatement("BNE", "RELZPG",
         [t |-> "Label", nt |-> "", v |-> 0, label |-> "BAR"]),
     InstructionStatement("STA", "IMM",
         [t |-> "Number", nt |-> "Hexadecimal8", v |-> \h01, label |-> ""]),
     InstructionStatement("LDA", "IMM",
         [t |-> "Number", nt |-> "Hexadecimal16", v |-> \h1234, label |-> ""])}

Sources ==
    UNION {{Source(s) : s \in [1..n -> SourceStatements]} : n \in 0..MaxStatements}

InitAsm ==
    /\ overflow_checks \in BOOLEAN
    /\ HostCpu(registers_reset(EmptyMemory))
    /\ \E source \in Sources :
          /\ assembler = NewAssembler(source)
          /\ tool = NoTool(NewAssembler(source))

Assembled(r) ==
    /\ assembler' = r.asm
    /\ tool' = [tool EXCEPT !.op = "assemble", !.ret = r]

\* Assembler::assemble, on a new Assembler
Assemble ==
    /\ tool.op = "new"
    /\ Assembled(assemble(assembler))
    /\ UNCHANGED <<cpu_vars, overflow_checks>>

\* disassemble, of the bytes assemble returned
Disassemble ==
    /\ tool.op = "assemble"
    /\ tool.ret.status = "ok"
    /\ tool' = [tool EXCEPT !.op = "disassemble",
                            !.listing = disassemble(Flatten(tool.ret.chunks))]
    /\ UNCHANGED <<cpu_vars, overflow_checks, assembler>>

\* Assembler::new(the lines of the listing).assemble()
Reassemble ==
    /\ tool.op = "disassemble"
    /\ tool.listing.status = "ok"
    /\ tool' = [tool EXCEPT
                  !.op = "reassemble",
                  !.again = assemble(NewAssembler(Source(
                       [i \in DOMAIN tool.listing.listing |->
                           parse_line(tool.listing.listing[i].line)])))]
    /\ UNCHANGED <<cpu_vars, overflow_checks, assembler>>

NextAsm == Assemble \/ Disassemble \/ Reassemble

SpecAsm == InitAsm /\ [][NextAsm]_vars

\* Assembler::assemble, called once more on the Assembler the first call left
AssembleAgain ==
    /\ tool.op = "assemble"
    /\ assembler' = assemble(assembler).asm
    /\ tool' = [tool EXCEPT !.op = "again", !.again = assemble(assembler)]
    /\ UNCHANGED <<cpu_vars, overflow_checks>>

NextAgain == Assemble \/ AssembleAgain

SpecAgain == InitAsm /\ [][NextAgain]_vars

-----------------------------------------------------------------------------
(* An Assembler in the middle of pass 2 of a large program, the cursor at  *)
(* pointer and the label FOO at offset: the operand of one more            *)
(* instruction is assembled.                                               *)

OperandOffsets == {\h0000, \h0001, \h0100, \h7FFF, \h8000, \hFFFF}

OperandPointers == {\h0000, \h0002, \h0100, \h7FFF, \h8000, \hFFFF}

\* BNE FOO, JMP FOO, JSR FOO, BNE BAR
OperandInstructions ==
    {InstructionStatement(m, IF m \in BranchMnemonics THEN "RELZPG" ELSE "ABS",
                          [t |-> "Label", nt |-> "", v |-> 0, label |-> n]) :
        m \in {"BNE", "JMP", "JSR"}, n \in {"FOO", "BAR"}}

Midway(asm) == assembler = asm /\ tool = NoTool(asm)

InitOperand ==
    /\ overflow_checks \in BOOLEAN
    /\ HostCpu(registers_reset(EmptyMemory))
    /\ \E offset \in OperandOffsets, pointer \in OperandPointers :
          Midway([source |-> <<>>, pointer |-> pointer,
                  labels |-> labels_insert(<<>>, "FOO", offset)])

\* Assembler::assemble_instruction, as pass 2 calls it
OperandAssembled(r, instruction) ==
    /\ assembler' = r.asm
    /\ tool' = [tool EXCEPT !.op = "operand", !.listing = instruction, !.ret = r]

AssembleOperand(instruction) ==
    /\ tool.op = "new"
    /\ OperandAssembled(assemble_instruction(assembler, instruction), instruction)
    /\ UNCHANGED <<cpu_vars, overflow_checks>>

NextOperand == \E instruction \in OperandInstructions : AssembleOperand(instruction)

SpecOperand == InitOperand /\ [][NextOperand]_vars

-----------------------------------------------------------------------------
(* Pass 2 assembles a branch to the label FOO at the cursor pointer; the   *)
(* host loads the bytes where Cpu::load puts them, at ORG + pointer, sets  *)
(* the flags, and steps the Cpu from the branch.                           *)

AgreePointers == {\h0000, \h0080, \h7F00, \h7FFD, \h7FFE}

\* target offset - branch offset - 2
AgreeDisplacements == {-130, -129, -128, -2, -1, 0, 1, 127, 128, 129}

\* B?? FOO for the eight branches
AgreeInstructions ==
    {InstructionStatement(m, "RELZPG", [t |-> "Label", nt |-> "", v |-> 0, label |-> "FOO"]) :
        m \in BranchMnemonics}

\* the offsets of a program that Cpu::load puts at ORG are below 0x8000
InitAgree ==
    /\ overflow_checks \in BOOLEAN
    /\ HostCpu(registers_reset(EmptyMemory))
    /\ \E pointer \in AgreePointers, d \in AgreeDisplacements :
          /\ pointer + 2 + d \in 0..\h7FFF
          /\ Midway([source |-> <<>>, pointer |-> pointer,
                     labels |-> labels_insert(<<>>, "FOO", pointer + 2 + d)])

\* Cpu::load of the program the bytes of tool.ret are part of, at the address the
\* cursor had before them, and the host's writes to the public pc and p
LoadBranch(flags) ==
    /\ tool.op = "operand"
    /\ tool.ret.status = "ok"
    /\ last.op = "new"
    /\ memory' = Poke(memory, ORG + assembler.pointer - Len(tool.ret.bytes), tool.ret.bytes)
    /\ pc' = ORG + assembler.pointer - Len(tool.ret.bytes)
    /\ p' = flags
    /\ last' = Op("load", Len(tool.ret.bytes), -1, Cpu)
    /\ UNCHANGED <<a, x, y, sp, status, overflow_checks, prior, call, calls, iter,
                   dbg, dbg_ret, assembler, tool>>

NextAgree ==
    \/ \E instruction \in AgreeInstructions : AssembleOperand(instruction)
    \/ \E flags \in BranchFlags : LoadBranch(flags)
    \/ Step

SpecAgree == InitAgree /\ [][NextAgree]_vars

-----------------------------------------------------------------------------
(* The host resets the Cpu, loads a program that ends with an arbitrary    *)
(* opcode, and steps through it.                                           *)

\* nothing; LDA #$FF, PHA, PLP; LDA #$20, PHA, PLP; LDA #$20, PHA, RTI
ReservedPrefixes ==
    {<<>>, <<\hA9, \hFF, \h48, \h28>>, <<\hA9, \h20, \h48, \h28>>,
     <<\hA9, \h20, \h48, \h40>>}

InitReserved ==
    /\ overflow_checks \in BOOLEAN
    /\ \E prefix \in ReservedPrefixes, opcode \in Byte, operands \in OpcodeOperands :
          Host(registers_reset(rom(EmptyMemory, prefix \o <<opcode>> \o operands)))

SpecReserved == InitReserved /\ [][Step]_vars

-----------------------------------------------------------------------------
(* disassemble on bytes that no assembler wrote.                           *)

MaxBytes == 3

\* BRK, LDA #, JMP abs, NOP, and two bytes that are no opcode
ListingBytes == {\h00, \hA9, \h4C, \hEA, \h02, \hFF}

ByteStreams == UNION {[1..n -> ListingBytes] : n \in 0..MaxBytes}

InitListing ==
    /\ overflow_checks \in BOOLEAN
    /\ HostCpu(registers_reset(EmptyMemory))
    /\ assembler = NewAssembler(<<>>)
    /\ \E bytes \in ByteStreams :
          tool = [op |-> "bytes", ret |-> bytes, listing |-> <<>>, again |-> <<>>]

\* disassemble(bytes)
DisassembleBytes ==
    /\ tool.op = "bytes"
    /\ tool' = [tool EXCEPT !.op = "listing", !.listing = disassemble(tool.ret)]
    /\ UNCHANGED <<cpu_vars, overflow_checks, assembler>>

NextListing == DisassembleBytes

SpecListing == InitListing /\ [][NextListing]_vars

-----------------------------------------------------------------------------
(* The host calls a flag setter and then the getter of the same flag.      *)

MaxFlagCalls == 1

Flags == {"negative", "overflow", "break", "decimal", "interrupt_disable", "zero",
          "carry"}

\* registers.set_flag_<flag>(value)
set_flag_of(s, flag, value) ==
    CASE flag = "negative" -> set_flag_negative(s, value)
      [] flag = "overflow" -> set_flag_overflow(s, value)
      [] flag = "break" -> set_flag_break(s, value)
      [] flag = "decimal" -> set_flag_decimal(s, value)
      [] flag = "interrupt_disable" -> set_flag_interrupt_disable(s, value)
      [] flag = "zero" -> set_flag_zero(s, value)
      [] flag = "carry" -> set_flag_carry(s, value)

\* registers.get_flag_<flag>()
get_flag_of(s, flag) ==
    CASE flag = "negative" -> get_flag_negative(s)
      [] flag = "overflow" -> get_flag_overflow(s)
      [] flag = "break" -> get_flag_break(s)
      [] flag = "decimal" -> get_flag_decimal(s)
      [] flag = "interrupt_disable" -> get_flag_interrupt_disable(s)
      [] flag = "zero" -> get_flag_zero(s)
      [] flag = "carry" -> get_flag_carry(s)

InitFlags ==
    /\ overflow_checks \in BOOLEAN
    /\ \E p0 \in Byte, r0 \in {\h00, \hFF} :
          Host([registers_reset(EmptyMemory)
                    EXCEPT !.p = p0, !.a = r0, !.x = r0, !.y = r0, !.sp = r0])

FlagSet(s, flag, value) ==
    /\ Becomes(s)
    /\ last' = Op("set_flag", [flag |-> flag, value |-> value],
                  get_flag_of(s, flag), Cpu)

SetFlag(flag, value) ==
    /\ status = "idle"
    /\ calls < MaxFlagCalls
    /\ FlagSet(set_flag_of(Cpu, flag, value), flag, value)
    /\ prior' = last
    /\ calls' = calls + 1
    /\ UNCHANGED <<status, overflow_checks, call, iter, dbg, dbg_ret,
                   assembler, tool>>

NextFlags == \E flag \in Flags, value \in BOOLEAN : SetFlag(flag, value)

SpecFlags == InitFlags /\ [][NextFlags]_vars

-----------------------------------------------------------------------------
(* The host puts two operand bytes at ORG, sets X and Y, and resolves an   *)
(* addressing mode, as the tests of the addressing modes do.               *)

MaxResolutions == 1

AddressingModes == {"Immediate", "Absolute", "AbsoluteX", "AbsoluteY", "Indirect",
                    "IndirectX", "IndirectY", "ZeroPage", "ZeroPageX", "ZeroPageY"}

IndexValues == {\h00, \h01, \hFF}

\* a memory whose zero page holds at every address the address itself, and 0x40
\* in the first byte after it
ZeroPage == [k \in 1..256 |-> IF k = 256 THEN \h40 ELSE k]

InitAddressing ==
    /\ overflow_checks \in BOOLEAN
    /\ \E b \in Byte, i \in IndexValues, j \in IndexValues :
          Host([registers_reset(Poke(ZeroPage, ORG, <<b, \h02>>))
                    EXCEPT !.x = i, !.y = j])

Resolved(r, mode) ==
    /\ Becomes(r.s)
    /\ status' = IF r.s.ok THEN "idle" ELSE "panicked"
    /\ last' = Op("get_address_from_mode", mode, r.v, Cpu)

\* Cpu::get_address_from_mode(mode)
Resolve(mode) ==
    /\ status = "idle"
    /\ calls < MaxResolutions
    /\ Resolved(get_address_from_mode(Cpu, mode), mode)
    /\ prior' = last
    /\ calls' = calls + 1
    /\ UNCHANGED <<overflow_checks, call, iter, dbg, dbg_ret, assembler, tool>>

NextAddressing == \E mode \in AddressingModes : Resolve(mode)

SpecAddressing == InitAddressing /\ [][NextAddressing]_vars

-----------------------------------------------------------------------------
(* The host sets A and the flags and an ASL A, LSR A, ROL A or ROR A at    *)
(* ORG, and steps.                                                         *)

RotateOpcodes == {\h0A, \h4A, \h2A, \h6A}

RotateStatus == {\h00, \h01, \hFC, \hFD}

InitRotate ==
    /\ overflow_checks \in BOOLEAN
    /\ \E opcode \in RotateOpcodes, v \in Byte, flags \in RotateStatus :
          Host([registers_reset(Poke(EmptyMemory, ORG, <<opcode>>))
                    EXCEPT !.a = v, !.x = \h5A, !.y = \hA5, !.sp = \h7F, !.p = flags])

SpecRotate == InitRotate /\ [][Step]_vars

-----------------------------------------------------------------------------
(* The host puts a shift or rotate of a byte of the memory at ORG, with    *)
(* other instructions after it, sets X and the carry, and steps.           *)

\* ASL, LSR, ROL, ROR: ZeroPage, ZeroPageX, Absolute, AbsoluteX
ShiftOpcodes == {\h06, \h16, \h0E, \h1E, \h46, \h56, \h4E, \h5E,
                 \h26, \h36, \h2E, \h3E, \h66, \h76, \h6E, \h7E}

ShiftOperands == {\h10, \hFF}

ShiftValues == {\h00, \h01, \h81}

\* the operand bytes b, 0x02 and then INX, NOP, NOP; the value v in the bytes the
\* operand can address with X = 0 or 1
ShiftMemory(v) ==
    Poke(Poke(Poke(Poke(Poke(EmptyMemory, \h0000, <<v>>), \h0010, <<v, v>>),
                   \h00FF, <<v, v>>), \h0210, <<v, v>>), \h02FF, <<v, v>>)

InitShift ==
    /\ overflow_checks \in BOOLEAN
    /\ \E opcode \in ShiftOpcodes, b \in ShiftOperands, v \in ShiftValues,
          i \in {\h00, \h01}, c \in {\h00, \h01} :
          Host([registers_reset(Poke(ShiftMemory(v), ORG,
                                     <<opcode, b, \h02, \hE8, \hEA, \hEA>>))
                    EXCEPT !.x = i, !.p = c])

SpecShift == InitShift /\ [][Step]_vars

-----------------------------------------------------------------------------
(* The host sets A, X, Y and the flags and a CMP #m, CPX #m or CPY #m at   *)
(* ORG, and steps.                                                         *)

CompareOpcodes == {\hC9, \hE0, \hC0}

CompareOperands == {\h00, \h01, \h7F, \h80, \hFF}

InitCompare ==
    /\ overflow_checks \in BOOLEAN
    /\ \E opcode \in CompareOpcodes, r \in Byte, m \in CompareOperands,
          flags \in {\h00, \hFF} :
          Host([registers_reset(Poke(EmptyMemory, ORG, <<opcode, m>>))
                    EXCEPT !.a = r, !.x = \hFF - r, !.y = (r + \h80) % 256,
                           !.sp = \h7F, !.p = flags])

SpecCompare == InitCompare /\ [][Step]_vars

-----------------------------------------------------------------------------
(* The host sets the registers and the flags and a store, a transfer, a    *)
(* branch, a jump, a call, a return, a push or a NOP at ORG, and steps.    *)

\* STA (7 modes), STX (3), STY (3)
StoreOpcodes == {\h85, \h95, \h8D, \h9D, \h99, \h81, \h91, \h86, \h96, \h8E,
                 \h84, \h94, \h8C}

\* TAX, TAY, TSX, TXA, TYA
TransferOpcodes == {\hAA, \hA8, \hBA, \h8A, \h98}

\* the stores, TXS, the branches, JMP, JSR, RTS, PHA, PHP, NOP
FlaglessOpcodes ==
    StoreOpcodes \cup BranchOpcodes
        \cup {\h9A, \h4C, \h6C, \h20, \h60, \h48, \h08, \hEA}

FlaglessValues == {\h00, \h01, \h40, \h7F, \h80, \h81, \hFE, \hFF}

FlaglessStatus == {\h00, \h41, \h82, \hFF}

InitFlagless ==
    /\ overflow_checks \in BOOLEAN
    /\ \E opcode \in FlaglessOpcodes \cup TransferOpcodes, v \in FlaglessValues,
          flags \in FlaglessStatus :
          Host([registers_reset(Poke(EmptyMemory, ORG, <<opcode, \h10, \h02>>))
                    EXCEPT !.a = v, !.x = \hFF - v, !.y = (v + \h80) % 256,
                           !.sp = (v + 2) % 256, !.p = flags])

SpecFlagless == InitFlagless /\ [][Step]_vars

-----------------------------------------------------------------------------
(* The host fills the stack page, sets SP, A and P and a PHA, PHP, PLA,    *)
(* PLP, JSR, RTS or RTI at ORG, and steps.                                 *)

\* PHA, PHP, PLA, PLP, JSR, RTS, RTI
StackOpcodes == {\h48, \h08, \h68, \h28, \h20, \h60, \h40}

\* the byte 0xFF - k at STACK_BASE + k for k < 255, and 0xEE at STACK_BASE + 255
\* and in the two bytes next to the page
StackPage ==
    [k \in (STACK_BASE - 1)..(STACK_BASE + 256) |->
        IF k \in {STACK_BASE - 1, STACK_BASE + 255, STACK_BASE + 256} THEN \hEE
        ELSE \hFF - (k - STACK_BASE)]

InitPage ==
    /\ overflow_checks \in BOOLEAN
    /\ \E opcode \in StackOpcodes, s0 \in Byte, v \in {\h00, \h5A} :
          Host([registers_reset(Poke(StackPage, ORG, <<opcode, \h10, \h02>>))
                    EXCEPT !.sp = s0, !.a = v, !.p = \hFF - v])

SpecPage == InitPage /\ [][Step]_vars

-----------------------------------------------------------------------------
(* The host sets A, the flags (D among them) and an ADC #m or SBC #m at    *)
(* ORG, and steps.                                                         *)

DecimalOperands == {\h00, \h01, \h09, \h7F, \hFF}

DecimalStatus == {\h00, \h01, \h08, \h09, \hF7, \hFF}

InitDecimal ==
    /\ overflow_checks \in BOOLEAN
    /\ \E opcode \in {\h69, \hE9}, a0 \in Byte, m \in DecimalOperands,
          flags \in DecimalStatus :
          Host([registers_reset(Poke(EmptyMemory, ORG, <<opcode, m>>))
                    EXCEPT !.a = a0, !.p = flags])

SpecDecimal == InitDecimal /\ [][Step]_vars

-----------------------------------------------------------------------------
(* Properties of execute, step and reset.                                  *)

\* C1: an iteration of execute's loop that completes makes execute return exactly
\* when the opcode it fetched is 0x00 (a 0x00 read as an operand is never the
\* fetched opcode); on return PC is the address of that BRK plus one, modulo
\* 65536, and A, X, Y, SP, P and the memory are as they were before the BRK.
C1_ExecuteReturnsAtFirstBrk ==
    (last.op = "execute" /\ status # "panicked") =>
        /\ (status = "returned") <=> (last.arg = \h00)
        /\ status = "returned" =>
              /\ pc = (last.pre.pc + 1) % 65536
              /\ a = last.pre.a /\ x = last.pre.x /\ y = last.pre.y
              /\ sp = last.pre.sp /\ p = last.pre.p
              /\ memory = last.pre.mem

\* execute has returned from LDA #$00 at ORG: the 0x00 at ORG + 1 was an operand,
\* and the BRK fetched was the one at ORG + 2
C1_Witness ==
    /\ status = "returned"
    /\ last.op = "execute"
    /\ read(memory, ORG) = \hA9
    /\ read(memory, ORG + 1) = \h00
    /\ last.pre.pc = ORG + 2
    /\ pc = ORG + 3

\* opcodes that transfer control (branches, JMP, JSR, RTS, RTI) or write memory
\* (STA, STX, STY, INC, DEC, the shifts and rotates of memory, PHA, PHP)
ControlOrWriteOpcodes ==
    {\h90, \hB0, \hF0, \hD0, \h30, \h10, \h50, \h70,
     \h4C, \h6C, \h20, \h60, \h40,
     \h85, \h95, \h8D, \h9D, \h99, \h81, \h91,
     \h86, \h96, \h8E, \h84, \h94, \h8C,
     \hE6, \hF6, \hEE, \hFE, \hC6, \hD6, \hCE, \hDE,
     \h06, \h16, \h0E, \h1E, \h46, \h56, \h4E, \h5E,
     \h26, \h36, \h2E, \h3E, \h66, \h76, \h6E, \h7E,
     \h48, \h08}

StraightLine(mem) == \A addr \in DOMAIN mem : mem[addr] \notin ControlOrWriteOpcodes

\* C2, as stated: a call of execute always ends (returns, or aborts on an
\* arithmetic overflow in a build that checks for it).
C2_ExecuteAlwaysEnds ==
    (status = "running") ~> (status \in {"returned", "panicked"})

\* C2, amended: a call of execute ends whenever no byte in memory is the opcode
\* of an instruction that transfers control or writes memory.
C2_ExecuteEndsOnStraightLineCode ==
    (status = "running" /\ StraightLine(memory))
        ~> (status \in {"returned", "panicked"})

\* execute has returned from a straight-line program of at least one instruction
C2_Witness ==
    /\ status = "returned"
    /\ last.op = "execute"
    /\ StraightLine(memory)
    /\ read(memory, ORG) = \hEA
    /\ last.pre.pc > ORG + 1

\* C3: when the host has stepped the second Cpu, from the state the first was in
\* when execute was called, until step returned 0x00, the second Cpu is in the
\* state execute left the first in: registers and memory are equal, and step did
\* not abort where execute did not.
C3_StepsEqualExecute ==
    (status = "returned" /\ dbg_ret = \h00) => dbg = Cpu

\* both have run a program of two instructions and the BRK
C3_Witness ==
    /\ status = "returned"
    /\ dbg_ret = \h00
    /\ dbg = Cpu
    /\ last.pre.pc > ORG + 2
    /\ a # 0

\* C4: after reset A, X, Y, P and SP are 0, PC is 0x8000 and every byte of the
\* memory reads 0, whatever the Cpu held before.
C4_ResetState ==
    last.op = "reset" =>
        /\ a = 0 /\ x = 0 /\ y = 0 /\ p = 0 /\ sp = 0
        /\ pc = \h8000
        /\ \A addr \in 0..65535 : read(memory, addr) = 0

\* a reset of a Cpu whose registers or memory were not as reset leaves them
C4_Witness == last.op = "reset" /\ last.arg > 2 /\ status = "idle"

-----------------------------------------------------------------------------
(* Properties of the stack.                                                *)

\* C5: a stack_pop that directly follows a stack_push(b) returns b and leaves SP
\* as it was before the push, for every SP, SP = 0 included, where the push wraps
\* SP to 0xFF and the pop wraps it back.
C5_PushPopRoundTrip ==
    (last.op = "stack_pop" /\ prior.op = "stack_push") =>
        /\ last.ret = prior.arg
        /\ sp = prior.pre.sp

\* a push at SP = 0 of a byte other than 0, popped again
C5_Witness ==
    /\ last.op = "stack_pop"
    /\ prior.op = "stack_push"
    /\ prior.pre.sp = 0
    /\ last.pre.sp = \hFF
    /\ last.ret = \h80

-----------------------------------------------------------------------------
(* Properties of instructions.                                             *)

Bit(v, n) == (v \div (2 ^ n)) % 2

\* C6: ADC with accumulator a, operand m and carry c leaves A = (a + m + c) mod
\* 256, C set exactly when a + m + c > 255, Z exactly when A = 0, N exactly when
\* bit 7 of A is set, and V exactly when bit 7 of the result differs from bit 7 of
\* a and from bit 7 of m (a taken before the instruction).
C6_AdcResultAndFlags ==
    (last.op = "step" /\ last.arg = \h69 /\ status # "panicked") =>
        LET a0  == last.pre.a
            m   == read(last.pre.mem, last.pre.pc + 1)
            sum == a0 + m + Bit(last.pre.p, 0)
            r   == sum % 256
        IN  /\ a = r
            /\ Bit(p, 0) = (IF sum > 255 THEN 1 ELSE 0)
            /\ Bit(p, 1) = (IF r = 0 THEN 1 ELSE 0)
            /\ Bit(p, 7) = Bit(r, 7)
            /\ Bit(p, 6) = (IF Bit(a0, 7) # Bit(r, 7) /\ Bit(m, 7) # Bit(r, 7)
                            THEN 1 ELSE 0)

\* 0x7F + 0x00 with the carry set: 0x80, overflow set though the bytes alone do
\* not overflow
C6_Witness ==
    /\ last.op = "step"
    /\ last.arg = \h69
    /\ last.pre.a = \h7F
    /\ read(last.pre.mem, last.pre.pc + 1) = \h00
    /\ Bit(last.pre.p, 0) = 1
    /\ a = \h80
    /\ Bit(p, 6) = 1

\* the flag condition of a branch opcode in the status byte flags
BranchCondition(opcode, flags) ==
    CASE opcode = \h90 -> Bit(flags, 0) = 0
      [] opcode = \hB0 -> Bit(flags, 0) = 1
      [] opcode = \hF0 -> Bit(flags, 1) = 1
      [] opcode = \hD0 -> Bit(flags, 1) = 0
      [] opcode = \h30 -> Bit(flags, 7) = 1
      [] opcode = \h10 -> Bit(flags, 7) = 0
      [] opcode = \h50 -> Bit(flags, 6) = 0
      [] opcode = \h70 -> Bit(flags, 6) = 1

\* the offset byte d as a two's-complement number
Signed(d) == IF d > 127 THEN d - 256 ELSE d

\* C7: a branch at address q with offset byte d that completes leaves PC =
\* (q + 2 + signed d) mod 65536 when its flag condition holds (BCC C=0, BCS C=1,
\* BEQ Z=1, BNE Z=0, BMI N=1, BPL N=0, BVC V=0, BVS V=1) and PC = (q + 2) mod
\* 65536 when it does not.
C7_BranchTarget ==
    (last.op = "step" /\ last.arg \in BranchOpcodes /\ status # "panicked") =>
        LET q == last.pre.pc
            d == read(last.pre.mem, (q + 1) % 65536)
        IN  pc = IF BranchCondition(last.arg, last.pre.p)
                 THEN (q + 2 + Signed(d)) % 65536
                 ELSE (q + 2) % 65536

\* a branch taken backwards
C7_Witness ==
    /\ last.op = "step"
    /\ last.arg = \hD0
    /\ last.pre.pc = \h8000
    /\ read(last.pre.mem, \h8001) = \hFE
    /\ Bit(last.pre.p, 1) = 0
    /\ pc = \h8000

\* C8: a JSR at address q that completes leaves the return address (q + 2) mod
\* 65536 on the stack, high byte pushed first, so that two pops return its low
\* byte and then its high byte; SP is 2 less, modulo 256; PC is the little-endian
\* address held at q + 1 and q + 2.
C8_JsrPushesReturnAddress ==
    (last.op = "step" /\ last.arg = \h20 /\ status # "panicked") =>
        LET q  == last.pre.pc
            lo == stack_pop(Cpu)
            hi == stack_pop(lo.s)
        IN  /\ sp = (last.pre.sp - 2) % 256
            /\ lo.v = ((q + 2) % 65536) % 256
            /\ hi.v = ((q + 2) % 65536) \div 256
            /\ read(memory, STACK_BASE + last.pre.sp) = hi.v
            /\ pc = read(memory, (q + 1) % 65536)
                    + 256 * read(memory, (q + 2) % 65536)

\* a JSR with SP = 1, whose second push wraps SP to 0xFF
C8_Witness ==
    /\ last.op = "step"
    /\ last.arg = \h20
    /\ last.pre.pc = \h8000
    /\ last.pre.sp = \h01
    /\ sp = \hFF
    /\ pc = \h9000
    /\ read(memory, \h0101) = \h80
    /\ read(memory, \h0100) = \h02

\* SP and the two bytes above it are, in the Cpu s, as the last JSR left them
Balanced(s) ==
    /\ call.at # -1
    /\ s.sp = call.after.sp
    /\ \A k \in {1, 2} :
          read(s.mem, STACK_BASE + ((s.sp + k) % 256))
              = read(call.after.mem, STACK_BASE + ((s.sp + k) % 256))

\* C9: an RTS that completes, reached with SP and the return address on the stack
\* as the JSR at address q left them, leaves PC = (q + 3) mod 65536 and SP as it
\* was before the JSR.
C9_RtsReturnsAfterJsr ==
    (last.op = "step" /\ last.arg = \h60 /\ status # "panicked"
        /\ Balanced(last.pre)) =>
        /\ pc = (call.at + 3) % 65536
        /\ sp = call.sp

\* JSR, PHA, PLA, RTS
C9_Witness ==
    /\ last.op = "step"
    /\ last.arg = \h60
    /\ Balanced(last.pre)
    /\ calls = 4
    /\ call.at = \h8000
    /\ pc = \h8003
    /\ sp = \hFF

\* C10: PHP pushes P as it is and leaves P alone; PLP loads all eight bits of the
\* byte it pops into P; a PLP that directly follows a PHP leaves P and SP as they
\* were before the PHP.
C10_PhpPlpRoundTrip ==
    (last.op = "step" /\ status # "panicked") =>
        /\ last.arg = \h08 =>
              /\ read(memory, STACK_BASE + last.pre.sp) = last.pre.p
              /\ p = last.pre.p
              /\ sp = (last.pre.sp - 1) % 256
        /\ last.arg = \h28 =>
              /\ p = read(last.pre.mem, STACK_BASE + ((last.pre.sp + 1) % 256))
              /\ sp = (last.pre.sp + 1) % 256
        /\ (last.arg = \h28 /\ prior.op = "step" /\ prior.arg = \h08) =>
              /\ p = prior.pre.p
              /\ sp = prior.pre.sp

\* PHP PLP with the break bit and the unused bit clear in P and SP = 0
C10_Witness ==
    /\ last.op = "step"
    /\ last.arg = \h28
    /\ prior.op = "step"
    /\ prior.arg = \h08
    /\ prior.pre.p = \hC3
    /\ prior.pre.sp = \h00
    /\ p = \hC3
    /\ sp = \h00

\* C11: SBC with accumulator a, operand m and carry c completes and leaves A =
\* (a + (m XOR 0xFF) + c) mod 256, C set exactly when that sum exceeds 255, and
\* Z, N, V by the rules of ADC applied to the operand m XOR 0xFF.
C11_SbcResultAndFlags ==
    (last.op = "step" /\ last.arg = \hE9) =>
        LET a0  == last.pre.a
            n   == \hFF - read(last.pre.mem, last.pre.pc + 1)
            sum == a0 + n + Bit(last.pre.p, 0)
            r   == sum % 256
        IN  /\ status # "panicked"
            /\ a = r
            /\ Bit(p, 0) = (IF sum > 255 THEN 1 ELSE 0)
            /\ Bit(p, 1) = (IF r = 0 THEN 1 ELSE 0)
            /\ Bit(p, 7) = Bit(r, 7)
            /\ Bit(p, 6) = (IF Bit(a0, 7) # Bit(r, 7) /\ Bit(n, 7) # Bit(r, 7)
                            THEN 1 ELSE 0)

\* the SBC #$04 of the test: A = 0x08, carry set, at ORG
SbcOfTheTest ==
    /\ last.op = "step"
    /\ last.arg = \hE9
    /\ last.pre.pc = ORG
    /\ last.pre.a = \h08
    /\ last.pre.p = \h01
    /\ read(last.pre.mem, ORG + 1) = \h04

\* C12: SBC #$04 with A = 0x08 and the carry set leaves A = 0x03, C = 1, V = 0,
\* Z = 0, N = 0 and PC after the two bytes of the instruction.
C12_SbcEightMinusFour ==
    SbcOfTheTest =>
        /\ status = "idle"
        /\ a = \h03
        /\ Bit(p, 0) = 1 /\ Bit(p, 6) = 0 /\ Bit(p, 1) = 0 /\ Bit(p, 7) = 0
        /\ pc = ORG + 2

C12_Witness == SbcOfTheTest /\ a = \h03 /\ p = \h01 /\ pc = \h8002

\* the 151 opcodes of the 6502 instruction set
LegalOpcodes ==
    {\h69, \h65, \h75, \h6D, \h7D, \h79, \h61, \h71,
     \h29, \h25, \h35, \h2D, \h3D, \h39, \h21, \h31,
     \h0A, \h06, \h16, \h0E, \h1E,
     \h90, \hB0, \hF0, \h24, \h2C, \h30, \hD0, \h10, \h00, \h50, \h70,
     \h18, \hD8, \h58, \hB8,
     \hC9, \hC5, \hD5, \hCD, \hDD, \hD9, \hC1, \hD1,
     \hE0, \hE4, \hEC, \hC0, \hC4, \hCC,
     \hC6, \hD6, \hCE, \hDE, \hCA, \h88,
     \h49, \h45, \h55, \h4D, \h5D, \h59, \h41, \h51,
     \hE6, \hF6, \hEE, \hFE, \hE8, \hC8,
     \h4C, \h6C, \h20,
     \hA9, \hA5, \hB5, \hAD, \hBD, \hB9, \hA1, \hB1,
     \hA2, \hA6, \hB6, \hAE, \hBE,
     \hA0, \hA4, \hB4, \hAC, \hBC,
     \h4A, \h46, \h56, \h4E, \h5E,
     \hEA,
     \h09, \h05, \h15, \h0D, \h1D, \h19, \h01, \h11,
     \h48, \h08, \h68, \h28,
     \h2A, \h26, \h36, \h2E, \h3E,
     \h6A, \h66, \h76, \h6E, \h7E,
     \h40, \h60,
     \hE9, \hE5, \hF5, \hED, \hFD, \hF9, \hE1, \hF1,
     \h38, \hF8, \h78,
     \h85, \h95, \h8D, \h9D, \h99, \h81, \h91,
     \h86, \h96, \h8E, \h84, \h94, \h8C,
     \hAA, \hA8, \hBA, \h8A, \h9A, \h98}

\* C13: a step on a byte that is none of the 151 opcodes, at an address q below
\* 0xFFFF, does not abort; when it completes PC is q + 1 (modulo 65536) and A, X,
\* Y, SP, P and the memory are unchanged; the next step fetches the byte at q + 1.
C13_UnknownOpcodeSkipped ==
    /\ (last.op = "step" /\ last.arg \notin LegalOpcodes) =>
          /\ last.pre.pc < \hFFFF => status # "panicked"
          /\ status # "panicked" =>
                /\ pc = (last.pre.pc + 1) % 65536
                /\ a = last.pre.a /\ x = last.pre.x /\ y = last.pre.y
                /\ sp = last.pre.sp /\ p = last.pre.p
                /\ memory = last.pre.mem
    /\ (last.op = "step" /\ prior.op = "step" /\ prior.arg \notin LegalOpcodes) =>
          /\ last.pre.pc = (prior.pre.pc + 1) % 65536
          /\ last.arg = read(prior.pre.mem, (prior.pre.pc + 1) % 65536)

\* the byte 0x02 was stepped over, and then the NOP after it
C13_Witness ==
    /\ last.op = "step"
    /\ prior.op = "step"
    /\ prior.arg = \h02
    /\ prior.pre.pc = \h8000
    /\ last.arg = \hEA
    /\ pc = \h8002
    /\ p = \hFF

\* C14: INX, INY, DEX and DEY add 1 to, or subtract 1 from, X or Y modulo 256
\* (0xFF + 1 = 0x00 with Z = 1 and N = 0, 0x00 - 1 = 0xFF with N = 1 and Z = 0);
\* Z is set exactly when the result is 0, N is bit 7 of the result, and A, SP, C,
\* V and the memory are unchanged.
C14_IndexIncDec ==
    (last.op = "step" /\ last.arg \in IndexOpcodes) =>
        LET old == IF last.arg \in {\hE8, \hCA} THEN last.pre.x ELSE last.pre.y
            new == IF last.arg \in {\hE8, \hCA} THEN x ELSE y
            d   == IF last.arg \in {\hE8, \hC8} THEN 1 ELSE -1
        IN  /\ status # "panicked"
            /\ new = (old + d) % 256
            /\ Bit(p, 1) = (IF new = 0 THEN 1 ELSE 0)
            /\ Bit(p, 7) = Bit(new, 7)
            /\ a = last.pre.a /\ sp = last.pre.sp
            /\ Bit(p, 0) = Bit(last.pre.p, 0)
            /\ Bit(p, 6) = Bit(last.pre.p, 6)
            /\ memory = last.pre.mem

\* INX at X = 0xFF with N set and Z clear before
C14_Witness ==
    /\ last.op = "step"
    /\ last.arg = \hE8
    /\ last.pre.x = \hFF
    /\ last.pre.p = \h82
    /\ x = \h00
    /\ p = \h02

-----------------------------------------------------------------------------
(* Properties of the assembler and the disassembler.                       *)

\* the number of instructions among the first i statements of the program P
ChunkOf(P, i) == Cardinality({j \in 1..i : P[j].kind = "Instruction"})

\* the number of bytes the instructions before statement i of P have in chunks
OffsetOf(P, chunks, i) == Len(Flatten(SubSeq(chunks, 1, ChunkOf(P, i - 1))))

\* statement i of P is the last definition of its label
LastDefinition(P, i) ==
    /\ P[i].kind = "Label"
    /\ \A j \in DOMAIN P : j > i => (P[j].kind # "Label" \/ P[j].label # P[i].label)

\* C15: when assemble returns bytes, every instruction has as many bytes in the
\* output as pass 1 moved the cursor for it; so the table holds, for every label,
\* the offset in the output of the first instruction after its definition, and
\* the cursor after pass 1 and after pass 2 is the length of the output.
C15_PassesAgreeOnWidths ==
    (tool.op = "assemble" /\ tool.ret.status = "ok") =>
        LET P      == assembler.source
            chunks == tool.ret.chunks
            new    == NewAssembler(P)
        IN  /\ \A i \in DOMAIN P :
                  P[i].kind = "Instruction" =>
                      Len(chunks[ChunkOf(P, i)])
                          = preprocess(new, SubSeq(P, 1, i)).pointer
                            - preprocess(new, SubSeq(P, 1, i - 1)).pointer
            /\ \A i \in DOMAIN P :
                  LastDefinition(P, i) =>
                      assembler.labels[P[i].label] = OffsetOf(P, chunks, i)
            /\ preprocess(new, P).pointer = Len(Flatten(chunks))
            /\ assembler.pointer = Len(Flatten(chunks))

\* LDA #$01, FOO:, JMP FOO assembled: FOO is 2 and the output has 5 bytes
C15_Witness ==
    /\ tool.op = "assemble"
    /\ tool.ret.status = "ok"
    /\ Len(assembler.source) = 3
    /\ assembler.source[3].opcode = "JMP"
    /\ "FOO" \in DOMAIN assembler.labels
    /\ assembler.labels["FOO"] = 2
    /\ Flatten(tool.ret.chunks) = <<\hA9, \h01, \h4C, \h02, \h80>>

\* the offset in the output of the first instruction after the last definition
\* of the label name in P
TargetOffset(P, chunks, name) ==
    OffsetOf(P, chunks, CHOOSE i \in DOMAIN P : LastDefinition(P, i) /\ P[i].label = name)

\* C16: a branch with a label operand has exactly one operand byte in the output,
\* (offset of the label's target - offset of the branch opcode - 2) mod 256,
\* whether the label is defined before or after the branch.
C16_BranchDisplacement ==
    (tool.op = "assemble" /\ tool.ret.status = "ok") =>
        LET P      == assembler.source
            chunks == tool.ret.chunks
        IN  \A i \in DOMAIN P :
               (P[i].kind = "Instruction" /\ P[i].opcode \in BranchMnemonics
                    /\ P[i].value.t = "Label") =>
                   /\ Len(chunks[ChunkOf(P, i)]) = 2
                   /\ chunks[ChunkOf(P, i)][2]
                        = (TargetOffset(P, chunks, P[i].value.label)
                           - OffsetOf(P, chunks, i) - 2) % 256

\* BNE FOO, FOO:, BNE FOO: a forward and a backward reference
C16_Witness ==
    /\ tool.op = "assemble"
    /\ tool.ret.status = "ok"
    /\ Flatten(tool.ret.chunks) = <<\hD0, \h00, \hD0, \hFE>>

\* C17: an instruction that is no branch, with a label at target_offset as its
\* operand, is assembled to its opcode and exactly two operand bytes, the low and
\* then the high byte of target_offset + 0x8000 as a 16-bit value, for every
\* offset the label table can hold.
C17_AbsoluteLabelOperand ==
    (tool.op = "operand" /\ tool.listing.opcode \notin BranchMnemonics
        /\ tool.listing.value.label \in DOMAIN assembler.labels) =>
        LET target == (assembler.labels[tool.listing.value.label] + \h8000) % 65536
        IN  /\ tool.ret.status = "ok"
            /\ Len(tool.ret.bytes) = 3
            /\ tool.ret.bytes[2] = target % 256
            /\ tool.ret.bytes[3] = target \div 256

\* statement i of P is an instruction whose label no statement of P defines
UndefinedReference(P, i) ==
    /\ P[i].kind = "Instruction"
    /\ P[i].value.t = "Label"
    /\ \A j \in DOMAIN P : P[j].kind = "Label" => P[j].label # P[i].value.label

\* statement i of P is an instruction with a number or no operand for whose
\* mnemonic and addressing mode there is no opcode
NoOpcode(P, i) ==
    /\ P[i].kind = "Instruction"
    /\ P[i].value.t # "Label"
    /\ ~\E e \in EncoderTable :
          /\ e[2] = P[i].opcode
          /\ e[3] = (IF P[i].value.t = "None" THEN "IMPACC" ELSE P[i].addressing_mode)

\* assemble returned InvalidLabel for statement i of P, and no bytes
InvalidLabelAt(P, i) ==
    /\ tool.ret.status = "err"
    /\ tool.ret.err.kind = "InvalidLabel"
    /\ tool.ret.err.what = P[i].value.label
    /\ tool.ret.err.position = P[i].position

\* C18, as stated: when an instruction refers to a label that is not defined,
\* assemble returns InvalidLabel with the name and the position of the first
\* such instruction, and no bytes.
C18_InvalidLabelReturned ==
    tool.op = "assemble" =>
        \A i \in DOMAIN assembler.source :
            (/\ UndefinedReference(assembler.source, i)
             /\ \A j \in 1..(i - 1) : ~UndefinedReference(assembler.source, j))
                => InvalidLabelAt(assembler.source, i)

\* C18, amended: the same, when no instruction before the first one that refers
\* to an undefined label lacks an opcode.
C18_InvalidLabelFirstError ==
    tool.op = "assemble" =>
        \A i \in DOMAIN assembler.source :
            (/\ UndefinedReference(assembler.source, i)
             /\ \A j \in 1..(i - 1) :
                   /\ ~UndefinedReference(assembler.source, j)
                   /\ ~NoOpcode(assembler.source, j))
                => InvalidLabelAt(assembler.source, i)

\* LDA #$01, JMP FOO, BNE BAR, no label defined: the error is the one of the JMP
\* on line 2
C18_Witness ==
    /\ tool.op = "assemble"
    /\ Len(assembler.source) = 3
    /\ UndefinedReference(assembler.source, 2)
    /\ UndefinedReference(assembler.source, 3)
    /\ assembler.source[1].opcode = "LDA"
    /\ assembler.source[2].opcode = "JMP"
    /\ InvalidLabelAt(assembler.source, 2)
    /\ tool.ret.err.position = <<2, 1>>

\* the listing covers all the bytes assemble returned and, once its lines have
\* been assembled again, these have given the same bytes
RoundTrip ==
    /\ tool.listing.status = "ok"
    /\ Len(Flatten([i \in DOMAIN tool.listing.listing |->
                       tool.listing.listing[i].bytes]))
          = Len(Flatten(tool.ret.chunks))
    /\ tool.op = "reassemble" =>
          /\ tool.again.status = "ok"
          /\ Flatten(tool.again.chunks) = Flatten(tool.ret.chunks)

BrkOnlyLast(P) ==
    \A i \in DOMAIN P :
        (P[i].kind = "Instruction" /\ P[i].opcode = "BRK") =>
            \A j \in DOMAIN P : j > i => P[j].kind # "Instruction"

\* the operand bytes of an addressing mode of the assembler
ModeWidth(mode) ==
    CASE mode = "IMPACC" -> 0
      [] mode \in {"IMM", "RELZPG", "ZPX", "ZPY", "IDX", "IDY"} -> 1
      [] mode \in {"ABS", "ABX", "ABY", "IND"} -> 2

\* every number of P is as wide as the operand of the mode it stands in
WidthsMatch(P) ==
    \A i \in DOMAIN P :
        (P[i].kind = "Instruction" /\ P[i].value.t = "Number") =>
            ModeWidth(P[i].addressing_mode)
                = (IF P[i].value.nt \in {"Decimal8", "Hexadecimal8"} THEN 1 ELSE 2)

C20_ListingStopsAtBrk ==
    (tool.op = "disassemble" /\ tool.listing.status = "ok") =>
        LET L     == tool.listing.listing
            bytes == Flatten(tool.ret.chunks)
        IN  /\ \A i \in DOMAIN L :
                  /\ L[i].pointer = (IF i = 1 THEN 0
                                     ELSE L[i - 1].pointer + Len(L[i - 1].bytes))
                  /\ L[i].bytes = SubSeq(bytes, L[i].pointer + 1,
                                         L[i].pointer + Len(L[i].bytes))
                  /\ L[i].line.opcode = "BRK" => i = Len(L)
            /\ bytes # <<>> => L # <<>>
            /\ (L # <<>> /\ L[Len(L)].line.opcode # "BRK") =>
                  L[Len(L)].pointer + Len(L[Len(L)].bytes) = Len(bytes)

\* LDA #$01, BRK, LDA #$01: the listing ends with the BRK, two bytes early
C20_Witness ==
    /\ tool.op = "disassemble"
    /\ tool.listing.status = "ok"
    /\ Flatten(tool.ret.chunks) = <<\hA9, \h01, \h00, \hA9, \h01>>
    /\ Len(tool.listing.listing) = 2
    /\ tool.listing.listing[2].line.opcode = "BRK"
    /\ tool.listing.listing[2].pointer = 2

\* the operand bytes of the opcode byte in the canonical table
WidthOf(byte) ==
    LET mode == (CHOOSE e \in EncoderTable : e[1] = byte)[3]
    IN  CASE mode = "IMPACC" -> 0
          [] mode \in {"ABS", "ABX", "ABY", "IND"} -> 2
          [] OTHER -> 1

\* the 0-based offset of the first instruction boundary of bytes, from pointer
\* on, that holds no legal opcode; -1 when a BRK, the end of bytes or a cut
\* operand comes first
RECURSIVE FirstIllegal(_, _)
FirstIllegal(bytes, pointer) ==
    IF pointer >= Len(bytes) THEN -1
    ELSE IF bytes[pointer + 1] \notin LegalOpcodes THEN pointer
    ELSE IF bytes[pointer + 1] = \h00 THEN -1
    ELSE IF pointer + 1 + WidthOf(bytes[pointer + 1]) > Len(bytes) THEN -1
    ELSE FirstIllegal(bytes, pointer + 1 + WidthOf(bytes[pointer + 1]))

\* C21: when disassemble comes, before any BRK, to an instruction boundary whose
\* byte is no legal opcode, it returns the error InvalidOpcode of that byte and
\* no tuple of the instructions before it.
C21_InvalidOpcodeReturned ==
    (tool.op = "listing" /\ FirstIllegal(tool.ret, 0) >= 0) =>
        /\ tool.listing.status = "err"
        /\ tool.listing.err.kind = "InvalidOpcode"
        /\ tool.listing.err.what = tool.ret[FirstIllegal(tool.ret, 0) + 1]
        /\ tool.listing.listing = <<>>

\* LDA #$FF and then the byte 02: the error is the one of 02, not of the operand
C21_Witness ==
    /\ tool.op = "listing"
    /\ tool.ret = <<\hA9, \hFF, \h02>>
    /\ tool.listing.status = "err"
    /\ tool.listing.err.what = \h02

-----------------------------------------------------------------------------
(* Properties of the flags and of the addressing modes.                    *)

\* the position in P of the bit of a flag
FlagBit(flag) ==
    CASE flag = "negative" -> 7
      [] flag = "overflow" -> 6
      [] flag = "break" -> 4
      [] flag = "decimal" -> 3
      [] flag = "interrupt_disable" -> 2
      [] flag = "zero" -> 1
      [] flag = "carry" -> 0

\* C22: a flag setter called with v makes its own bit of P (N 0x80, V 0x40,
\* B 0x10, D 0x08, I 0x04, Z 0x02, C 0x01) equal to v, leaves the seven other
\* bits of P, the other registers and the memory as they were, and the getter of
\* the flag then returns v.
C22_FlagSetterSetsOwnBit ==
    last.op = "set_flag" =>
        /\ \A n \in 0..7 :
              Bit(p, n) = IF n = FlagBit(last.arg.flag)
                          THEN (IF last.arg.value THEN 1 ELSE 0)
                          ELSE Bit(last.pre.p, n)
        /\ last.ret = last.arg.value
        /\ a = last.pre.a /\ x = last.pre.x /\ y = last.pre.y
        /\ sp = last.pre.sp /\ pc = last.pre.pc /\ memory = last.pre.mem
        /\ status = "idle"

\* set_flag_break(false) on P = 0xFF: P is 0xEF
C22_Witness ==
    /\ last.op = "set_flag"
    /\ last.arg = [flag |-> "break", value |-> FALSE]
    /\ last.pre.p = \hFF
    /\ p = \hEF
    /\ last.ret = FALSE

\* the operand bytes of an addressing mode of the Cpu
OperandBytes(mode) ==
    IF mode \in {"Absolute", "AbsoluteX", "AbsoluteY", "Indirect"} THEN 2 ELSE 1

\* C23: the resolution of an addressing mode moves PC forward by the number of
\* operand bytes of the mode, 2 for Absolute, AbsoluteX, AbsoluteY and Indirect
\* and 1 for the others, IndirectX and IndirectY among them.
C23_PcAdvancesByOperandBytes ==
    (last.op = "get_address_from_mode" /\ status = "idle") =>
        pc = last.pre.pc + OperandBytes(last.arg)

\* C29: the effective address of ZeroPageX is (mem[PC] + X) mod 256, that of
\* ZeroPageY is (mem[PC] + Y) mod 256, and IndirectX reads its address at the
\* pointer (mem[PC] + X) mod 256: all three lie in the zero page.
C29_ZeroPageWraps ==
    (last.op = "get_address_from_mode" /\ status = "idle") =>
        LET b == read(last.pre.mem, last.pre.pc)
        IN  /\ last.arg = "ZeroPageX" =>
                  (last.ret = (b + last.pre.x) % 256 /\ last.ret \in 0..255)
            /\ last.arg = "ZeroPageY" =>
                  (last.ret = (b + last.pre.y) % 256 /\ last.ret \in 0..255)
            /\ last.arg = "IndirectX" =>
                  \* the low byte of the address is the byte at the pointer, and
                  \* the zero page holds at every address the address itself
                  last.ret % 256 = (b + last.pre.x) % 256

\* ZeroPageX with the operand 0xFF and X = 1: the address is 0x0000
C29_Witness ==
    /\ last.op = "get_address_from_mode"
    /\ last.arg = "ZeroPageX"
    /\ read(last.pre.mem, last.pre.pc) = \hFF
    /\ last.pre.x = \h01
    /\ last.ret = \h0000
    /\ status = "idle"

-----------------------------------------------------------------------------
(* Properties of shifts, rotations, comparisons, stores and transfers.     *)

\* the addressing mode of a shift or rotate of a byte of the memory
ShiftMode(opcode) ==
    CASE opcode \in {\h06, \h46, \h26, \h66} -> "ZeroPage"
      [] opcode \in {\h16, \h56, \h36, \h76} -> "ZeroPageX"
      [] opcode \in {\h0E, \h4E, \h2E, \h6E} -> "Absolute"
      [] opcode \in {\h1E, \h5E, \h3E, \h7E} -> "AbsoluteX"

\* the address the operand bytes after the opcode at s.pc name in the mode
EffectiveAddress(s, mode) ==
    CASE mode = "ZeroPage" -> read(s.mem, s.pc + 1)
      [] mode = "ZeroPageX" -> (read(s.mem, s.pc + 1) + s.x) % 256
      [] mode = "Absolute" -> read(s.mem, s.pc + 1) + 256 * read(s.mem, s.pc + 2)
      [] mode = "AbsoluteX" ->
            (read(s.mem, s.pc + 1) + 256 * read(s.mem, s.pc + 2) + s.x) % 65536

\* C24: ASL, LSR, ROL and ROR of a byte of the memory change no byte of the memory
\* but the one at the effective address the operand was read from, and leave PC
\* after the operand bytes, which they pass once.
C24_ShiftWritesBack ==
    (last.op = "step" /\ last.arg \in ShiftOpcodes /\ status = "idle") =>
        /\ pc = last.pre.pc + 1 + OperandBytes(ShiftMode(last.arg))
        /\ \A k \in (DOMAIN memory) \cup (DOMAIN last.pre.mem) :
              k # EffectiveAddress(last.pre, ShiftMode(last.arg)) =>
                  read(memory, k) = read(last.pre.mem, k)

\* C25: ROR A with the value v in A and the carry c leaves A = (v >> 1) OR
\* (c << 7), C = bit 0 of v, Z set exactly when A is 0 and N = bit 7 of A.
C25_RorAccumulator ==
    (last.op = "step" /\ last.arg = \h6A) =>
        LET v == last.pre.a
            c == Bit(last.pre.p, 0)
        IN  /\ status = "idle"
            /\ a = (v \div 2) + 128 * c
            /\ Bit(p, 0) = Bit(v, 0)
            /\ Bit(p, 1) = (IF a = 0 THEN 1 ELSE 0)
            /\ Bit(p, 7) = Bit(a, 7)

\* C26: with the value v in A and the carry c, ASL A leaves A = (v << 1) mod 256
\* and C = bit 7 of v, LSR A leaves A = v >> 1 and C = bit 0 of v (so N = 0), ROL A
\* leaves A = ((v << 1) mod 256) OR c and C = bit 7 of v; each sets Z exactly when
\* A is 0 and N to bit 7 of A, and changes no other flag, register or byte of the
\* memory.
C26_ShiftAccumulator ==
    (last.op = "step" /\ last.arg \in {\h0A, \h4A, \h2A}) =>
        LET v == last.pre.a
            c == Bit(last.pre.p, 0)
        IN  /\ status = "idle"
            /\ last.arg = \h0A => (a = (2 * v) % 256 /\ Bit(p, 0) = Bit(v, 7))
            /\ last.arg = \h4A => (a = v \div 2 /\ Bit(p, 0) = Bit(v, 0)
                                     /\ Bit(p, 7) = 0)
            /\ last.arg = \h2A => (a = ((2 * v) % 256) + c /\ Bit(p, 0) = Bit(v, 7))
            /\ Bit(p, 1) = (IF a = 0 THEN 1 ELSE 0)
            /\ Bit(p, 7) = Bit(a, 7)
            /\ \A n \in 2..6 : Bit(p, n) = Bit(last.pre.p, n)
            /\ x = last.pre.x /\ y = last.pre.y /\ sp = last.pre.sp
            /\ pc = last.pre.pc + 1
            /\ memory = last.pre.mem

\* ROL A on 0x80 with the carry set: A = 0x01, the carry stays set
C26_Witness ==
    /\ last.op = "step"
    /\ last.arg = \h2A
    /\ last.pre.a = \h80
    /\ last.pre.p = \h01
    /\ a = \h01
    /\ p = \h01

\* C27: CMP, CPX and CPY with the value r in A, X or Y and the operand m set C
\* exactly when r >= m, Z exactly when r = m and N to bit 7 of (r - m) mod 256,
\* and leave A, X, Y, SP, V and the other flags and the memory as they were.
C27_Compare ==
    (last.op = "step" /\ last.arg \in CompareOpcodes) =>
        LET r == CASE last.arg = \hC9 -> last.pre.a
                   [] last.arg = \hE0 -> last.pre.x
                   [] last.arg = \hC0 -> last.pre.y
            m == read(last.pre.mem, last.pre.pc + 1)
        IN  /\ status = "idle"
            /\ Bit(p, 0) = (IF r >= m THEN 1 ELSE 0)
            /\ Bit(p, 1) = (IF r = m THEN 1 ELSE 0)
            /\ Bit(p, 7) = Bit((r - m) % 256, 7)
            /\ \A n \in 2..6 : Bit(p, n) = Bit(last.pre.p, n)
            /\ a = last.pre.a /\ x = last.pre.x /\ y = last.pre.y
            /\ sp = last.pre.sp
            /\ pc = last.pre.pc + 2
            /\ memory = last.pre.mem

\* CPX #$80 with X = 0x7F: r < m, so C = 0, Z = 0, and N = 1 as 0x7F - 0x80 is 0xFF
C27_Witness ==
    /\ last.op = "step"
    /\ last.arg = \hE0
    /\ last.pre.x = \h7F
    /\ read(last.pre.mem, last.pre.pc + 1) = \h80
    /\ last.pre.p = \h00
    /\ p = \h80

\* the addresses at which the memory differs from the one before the last call
Written == {k \in (DOMAIN memory) \cup (DOMAIN last.pre.mem) :
               read(memory, k) # read(last.pre.mem, k)}

\* the register a store writes, a transfer reads, and a transfer writes
StoredRegister(opcode) ==
    CASE opcode \in {\h85, \h95, \h8D, \h9D, \h99, \h81, \h91} -> "a"
      [] opcode \in {\h86, \h96, \h8E} -> "x"
      [] opcode \in {\h84, \h94, \h8C} -> "y"

TransferFrom(opcode) ==
    CASE opcode \in {\hAA, \hA8} -> "a"
      [] opcode = \hBA -> "sp"
      [] opcode = \h8A -> "x"
      [] opcode = \h98 -> "y"

TransferTo(opcode) ==
    CASE opcode \in {\hAA, \hBA} -> "x"
      [] opcode = \hA8 -> "y"
      [] opcode \in {\h8A, \h98} -> "a"

\* C28: the stores, TXS, the branches, JMP, JSR, RTS, PHA, PHP and NOP leave P as
\* it was; a store changes, besides PC, only the byte at its effective address,
\* which gets the register; TXS changes, besides PC, only SP, which gets X; a
\* transfer TAX, TAY, TSX, TXA, TYA copies its source and changes, besides PC and
\* its destination, only Z and N, set from the value copied.
C28_FlagsUntouched ==
    (last.op = "step" /\ last.arg \in FlaglessOpcodes \cup TransferOpcodes) =>
        /\ status = "idle"
        /\ last.arg \in FlaglessOpcodes => p = last.pre.p
        /\ last.arg \in StoreOpcodes =>
              /\ a = last.pre.a /\ x = last.pre.x /\ y = last.pre.y
              /\ sp = last.pre.sp
              /\ Cardinality(Written) <= 1
              /\ \A k \in Written : memory[k] = last.pre[StoredRegister(last.arg)]
              /\ last.arg \in {\h85, \h86, \h84} =>
                    /\ Written \subseteq {EffectiveAddress(last.pre, "ZeroPage")}
                    /\ read(memory, EffectiveAddress(last.pre, "ZeroPage"))
                          = last.pre[StoredRegister(last.arg)]
              /\ last.arg \in {\h8D, \h8E, \h8C} =>
                    /\ Written \subseteq {EffectiveAddress(last.pre, "Absolute")}
                    /\ read(memory, EffectiveAddress(last.pre, "Absolute"))
                          = last.pre[StoredRegister(last.arg)]
        /\ last.arg = \h9A =>
              /\ sp = last.pre.x
              /\ a = last.pre.a /\ x = last.pre.x /\ y = last.pre.y
              /\ memory = last.pre.mem
              /\ pc = last.pre.pc + 1
        /\ last.arg \in TransferOpcodes =>
              LET v  == last.pre[TransferFrom(last.arg)]
                  to == TransferTo(last.arg)
              IN  /\ Cpu[to] = v
                  /\ \A reg \in {"a", "x", "y", "sp"} \ {to} : Cpu[reg] = last.pre[reg]
                  /\ Bit(p, 1) = (IF v = 0 THEN 1 ELSE 0)
                  /\ Bit(p, 7) = Bit(v, 7)
                  /\ \A n \in {0, 2, 3, 4, 5, 6} : Bit(p, n) = Bit(last.pre.p, n)
                  /\ memory = last.pre.mem
                  /\ pc = last.pre.pc + 1

\* TXS with X = 0x00 and all flags clear: SP is 0x00 and Z stays clear
C28_Witness ==
    /\ last.op = "step"
    /\ last.arg = \h9A
    /\ last.pre.x = \h00
    /\ last.pre.sp # \h00
    /\ last.pre.p = \h00
    /\ sp = \h00
    /\ p = \h00

\* the address of the stack byte n places above the stack pointer of the Cpu s
Above(s, n) == STACK_BASE + ((s.sp + n) % 256)

\* C30: every byte a stack instruction (PHA, PHP, PLA, PLP, JSR, RTS, RTI) writes
\* or reads is at 0x0100 + SP, inside 0x0100..0x01FF: a push writes at the stack
\* pointer and then sets SP = (SP - 1) mod 256, a pop sets SP = (SP + 1) mod 256
\* and then reads there.
C30_StackPageConfinement ==
    (last.op = "step" /\ last.arg \in StackOpcodes) =>
        LET s0 == last.pre
        IN  /\ status = "idle"
            /\ Written \subseteq STACK_BASE..(STACK_BASE + 255)
            /\ last.arg = \h48 =>
                  /\ Written \subseteq {Above(s0, 0)}
                  /\ read(memory, Above(s0, 0)) = s0.a
                  /\ sp = (s0.sp - 1) % 256
            /\ last.arg = \h08 =>
                  /\ Written \subseteq {Above(s0, 0)}
                  /\ read(memory, Above(s0, 0)) = s0.p
                  /\ sp = (s0.sp - 1) % 256
            /\ last.arg = \h20 =>
                  /\ Written \subseteq {Above(s0, 0), Above(s0, -1)}
                  /\ read(memory, Above(s0, 0)) = (s0.pc + 2) \div 256
                  /\ read(memory, Above(s0, -1)) = (s0.pc + 2) % 256
                  /\ sp = (s0.sp - 2) % 256
            /\ last.arg = \h68 =>
                  /\ Written = {}
                  /\ a = read(s0.mem, Above(s0, 1))
                  /\ sp = (s0.sp + 1) % 256
            /\ last.arg = \h28 =>
                  /\ Written = {}
                  /\ p = read(s0.mem, Above(s0, 1))
                  /\ sp = (s0.sp + 1) % 256
            /\ last.arg = \h60 =>
                  /\ Written = {}
                  /\ pc = read(s0.mem, Above(s0, 1))
                            + 256 * read(s0.mem, Above(s0, 2)) + 1
                  /\ sp = (s0.sp + 2) % 256
            /\ last.arg = \h40 =>
                  /\ Written = {}
                  /\ p = read(s0.mem, Above(s0, 1))
                  /\ pc = read(s0.mem, Above(s0, 2))
                            + 256 * read(s0.mem, Above(s0, 3))
                  /\ sp = (s0.sp + 3) % 256

\* PLA with SP = 0xFF: SP wraps to 0x00 and A is the byte at 0x0100, not the one
\* at 0x0200
C30_Witness ==
    /\ last.op = "step"
    /\ last.arg = \h68
    /\ last.pre.sp = \hFF
    /\ sp = \h00
    /\ a = \hFF
    /\ read(memory, \h0200) = \hEE

-----------------------------------------------------------------------------
(* Properties that relate two runs, or the assembler and the Cpu.          *)

\* the Cpu s with the D bit of P the other way round
OtherDecimal(s) == [s EXCEPT !.p = IF Bit(s.p, 3) = 1 THEN s.p - 8 ELSE s.p + 8]

\* C31: an ADC or SBC from a state and the same instruction from the state that
\* differs from it in the D bit of P only end alike: the same A, the same N, V,
\* Z and C, every other register and the memory the same, and in each the D bit
\* it began with.
C31_DecimalIgnored ==
    (last.op = "step" /\ last.arg \in {\h69, \hE9}) =>
        LET twin == step(OtherDecimal(last.pre)).s
        IN  /\ twin.ok = (status # "panicked")
            /\ twin.a = a
            /\ \A n \in {0, 1, 2, 4, 5, 6, 7} : Bit(twin.p, n) = Bit(p, n)
            /\ Bit(p, 3) = Bit(last.pre.p, 3)
            /\ Bit(twin.p, 3) = 1 - Bit(last.pre.p, 3)
            /\ twin.x = x /\ twin.y = y /\ twin.sp = sp /\ twin.pc = pc
            /\ twin.mem = memory

\* ADC #$01 with A = 0x09 and D set: A is 0x0A, as it is with D clear
C31_Witness ==
    /\ last.op = "step"
    /\ last.arg = \h69
    /\ last.pre.a = \h09
    /\ last.pre.p = \h08
    /\ read(last.pre.mem, last.pre.pc + 1) = \h01
    /\ a = \h0A
    /\ p = \h08

\* C32: every instruction in the output of assemble has, after its opcode, as
\* many operand bytes as its addressing mode is wide: none for IMPACC, one for
\* IMM, RELZPG, ZPX, ZPY, IDX and IDY, two for ABS, ABX, ABY and IND.
C32_OperandWidthOfMode ==
    (tool.op = "assemble" /\ tool.ret.status = "ok") =>
        \A i \in DOMAIN assembler.source :
            assembler.source[i].kind = "Instruction" =>
                Len(tool.ret.chunks[ChunkOf(assembler.source, i)]) - 1
                    = ModeWidth(IF assembler.source[i].value.t = "None" THEN "IMPACC"
                                ELSE assembler.source[i].addressing_mode)

\* the opcodes of the branches, JMP, JSR, RTS and RTI
ControlOpcodes == BranchOpcodes \cup {\h4C, \h6C, \h20, \h60, \h40}

\* C33: a step of the Cpu at an instruction of a program loaded at ORG that is a
\* legal opcode and no branch, jump, call or return moves PC by 1 + the operand
\* bytes of the opcode's addressing mode in the table of the assembler and the
\* disassembler, so the Cpu fetches its next opcode where the next instruction of
\* the byte stream begins.
C33_StreamSynchronised ==
    (last.op = "step" /\ last.pre.pc = ORG /\ status = "idle"
        /\ last.arg \in LegalOpcodes \ ControlOpcodes) =>
        pc = last.pre.pc + 1 + WidthOf(last.arg)

\* C34: when pass 2 has assembled a branch to a label with target offset - branch
\* offset - 2 in -128..127, and the Cpu, with the bytes at ORG + branch offset and
\* the flag condition of the branch true, completes a step from the branch, PC is
\* ORG + target offset.
C34_BranchAgreement ==
    (last.op = "step" /\ status = "idle" /\ tool.op = "operand"
        /\ last.pre.pc = ORG + assembler.pointer - 2
        /\ last.arg \in BranchOpcodes /\ BranchCondition(last.arg, last.pre.p)
        /\ assembler.labels["FOO"] - (assembler.pointer - 2) - 2 \in -128..127) =>
        pc = ORG + assembler.labels["FOO"]

\* BNE FOO at offset 0x0080 with FOO at 0x0002, 128 bytes before the byte after
\* the operand, and with FOO at 0x0101, 127 bytes after it
C34_Witness ==
    /\ last.op = "step"
    /\ last.arg = \hD0
    /\ last.pre.pc = \h8080
    /\ Bit(last.pre.p, 1) = 0
    /\ assembler.labels["FOO"] \in {\h0002, \h0101}
    /\ pc = ORG + assembler.labels["FOO"]

\* C35: a second call of assemble on the same Assembler, after a first call that
\* returned bytes, returns the same bytes.
C35_AssembleRepeatable ==
    (tool.op = "again" /\ tool.ret.status = "ok") =>
        /\ tool.again.status = "ok"
        /\ Flatten(tool.again.chunks) = Flatten(tool.ret.chunks)

\* C36: disassemble returns a listing or an error value for every byte sequence,
\* also for one that ends before the operand bytes of its last opcode; it never
\* indexes past the end of the bytes.
C36_DisassembleReturns ==
    tool.op = "listing" => tool.listing.status \in {"ok", "err"}

\* C37: the arithmetic on PC and on effective addresses is modulo 65536 in every
\* build, so a step of a legal opcode completes for every PC, operand and
\* register value, also at PC = 0xFFFF and with a base address of 0xFFFF.
C37_AddressArithmeticTotal ==
    (last.op = "step" /\ last.arg \in LegalOpcodes) => status = "idle"

\* C38: bit 5 of P is 0 after reset, a step of an instruction other than PLP and
\* RTI leaves bit 5 as it was, whatever flags it sets, and a PLP or RTI that
\* completes leaves in bit 5 the bit 5 of the byte it popped; so bit 5 is 0 in
\* every state reached from reset by instructions until a PLP or RTI pops a byte
\* that has it set.
C38_ReservedBit ==
    /\ last.op = "new" => Bit(p, 5) = 0
    /\ (last.op = "step" /\ last.arg \notin {\h28, \h40}) =>
           Bit(p, 5) = Bit(last.pre.p, 5)
    /\ (last.op = "step" /\ last.arg \in {\h28, \h40} /\ status = "idle") =>
           Bit(p, 5) = Bit(read(last.pre.mem, STACK_BASE + ((last.pre.sp + 1) % 256)), 5)

\* after LDA #$FF, PHA, PLP has set every bit of P, a CLV clears V and leaves
\* bit 5 set
C38_Witness ==
    /\ last.op = "step"
    /\ last.arg = \hB8
    /\ last.pre.p = \hFF
    /\ prior.op = "step" /\ prior.arg = \h28
    /\ p = \hBF

=============================================================================
